---- MODULE Spec2Model ----
(***************************************************************************)
(* A model of the standalone scripts of the repository.  One script is     *)
(* chosen when a behaviour starts (prog) and is then executed one library  *)
(* call at a time.  Every library call that talks to the browser or to the *)
(* database either returns or raises an exception of class Exception.      *)
(***************************************************************************)
EXTENDS Integers, Sequences, FiniteSets, TLC

VARIABLES
    prog,       \* the script that is being run
    mode,       \* where control is: "run", "except", "finally", "exit", "raised"
    pc,         \* screenshot scripts: index of the next call of the script
    handle,     \* screenshot scripts: what the last query_selector returned
    trace,      \* the library calls made so far, in order, with their outcome
    conn,       \* database scripts: the connection, "None", "open" or "closed"
    cursor,     \* database scripts: the cursor, "None", "open" or "closed"
    db,         \* the committed state of the database: workout_plans and its columns
    tx,         \* the columns added by the open transaction, not yet committed
    rows,       \* the result set of the last statement the cursor executed
    ret,        \* what the script's function returned: "None", "True", "False"
    exit_status, \* the status the process ended with, -1 while it runs
    at,         \* crawler: the statement control is at
    i,          \* crawler: index in pages_to_visit of the URL of the for loop
    visited_pages, \* crawler: the set visited_pages
    page_data,  \* crawler: the dict page_data of the page being processed
    results,    \* crawler: the dict results (pages, features, errors)
    site,       \* the texts visible on the page the script looks at
    iter,       \* crawler: the calls that raised and the probes that ran in
                \* the iteration of the for loop that is running or just ended
    img,        \* icon scripts: the image the script holds
    files,      \* icon scripts: the image saved under each output name
    env,        \* what the script finds when it starts: the input file and
                \* the tools of the machine, the schema of the database
    conversion_success \* process_svg_icon: the flag conversion_success

dbVars == <<conn, cursor, db, tx, rows, ret, exit_status>>

crawlVars == <<at, i, visited_pages, page_data, results, site, iter>>

extVars == <<img, files, env, conversion_success>>

vars == <<prog, mode, pc, handle, trace, dbVars, crawlVars, extVars>>

----------------------------------------------------------------------------
(* The five screenshot scripts, as the sequence of awaited calls each makes. *)

I(op, arg) == [op |-> op, arg |-> arg, body |-> 0]

\* element = await page.query_selector(sel), followed by `if element:` whose
\* block holds the next n calls
Q(sel, n) == [op |-> "query_selector", arg |-> sel, body |-> n]

Setup(viewport) ==
    << I("launch", "chromium"), I("new_context", viewport), I("new_page", "") >>

\* the first call inside `try:`; the calls before it are outside of it
TryStart == 4

SkipOnboarding ==
    << I("goto", "http://localhost:8081"),
       I("wait_for_timeout", "8000"),
       Q("text=Skip", 2),
           I("click", "text=Skip"),
           I("wait_for_timeout", "3000") >>

capture_element ==
    Setup("390x1200") \o SkipOnboarding \o
    << I("screenshot", "full_page_tall.png") >>

capture_gauges ==
    Setup("390x844") \o SkipOnboarding \o
    << Q("text=Log In", 2),
           I("click", "text=Log In"),
           I("wait_for_timeout", "3000"),
       I("wait_for_timeout", "2000"),
       I("screenshot", "calorie_counter_page.png"),
       I("evaluate", "window.scrollTo(0, 800)"),
       I("wait_for_timeout", "2000"),
       I("screenshot", "calorie_counter_scrolled.png"),
       I("evaluate", "window.scrollTo(0, 300)"),
       I("wait_for_timeout", "2000"),
       I("screenshot", "macro_cards_view.png") >>

capture_macro_detail ==
    Setup("390x844") \o SkipOnboarding \o
    << I("evaluate", "window.scrollTo(0, 400)"),
       I("wait_for_timeout", "2000"),
       I("screenshot", "macro_cards_detail.png"),
       I("evaluate", "window.scrollTo(0, 250)"),
       I("wait_for_timeout", "2000"),
       I("screenshot", "gauges_combined.png") >>

capture_macros_final ==
    Setup("390x844") \o SkipOnboarding \o
    << I("evaluate", "window.scrollTo(0, 550)"),
       I("wait_for_timeout", "2000"),
       I("screenshot", "macros_view1.png"),
       I("evaluate", "window.scrollTo(0, 650)"),
       I("wait_for_timeout", "2000"),
       I("screenshot", "macros_view2.png"),
       I("evaluate", "window.scrollTo(0, 500)"),
       I("wait_for_timeout", "2000"),
       I("screenshot", "macros_view3.png") >>

\* a card expanded and captured at once, with no wait after the click
ExpandCardNoWait(sel, png) ==
    << Q(sel, 2),
           I("click", sel),
           I("screenshot", png) >>

\* a card of diagnose_cards: click it if present, wait, screenshot
ExpandCard(sel, png) ==
    << Q(sel, 3),
           I("click", sel),
           I("wait_for_timeout", "1000"),
           I("screenshot", png) >>

ScrollTo(y) ==
    << I("evaluate", y), I("wait_for_timeout", "2000") >>

diagnose_cards ==
    Setup("390x1400") \o SkipOnboarding \o
    << I("screenshot", "diagnosis_01_initial.png") >> \o
    ScrollTo("window.scrollTo(0, 800)") \o
    << I("screenshot", "diagnosis_02_scrolled.png") >> \o
    ExpandCard("text=DAILY FAT LOSS", "diagnosis_03_daily_fat_loss.png") \o
    ScrollTo("window.scrollTo(0, 1200)") \o
    ExpandCard("text=WEEKLY PROGRESS", "diagnosis_04_weekly_progress.png") \o
    ScrollTo("window.scrollTo(0, 1800)") \o
    ExpandCard("text=DINING OUT", "diagnosis_05_dining_out.png") \o
    ScrollTo("window.scrollTo(0, 2400)") \o
    ExpandCard("text=WEARABLE SYNC", "diagnosis_06_wearable_sync.png") \o
    ScrollTo("window.scrollTo(0, 3000)") \o
    ExpandCard("text=TODAY'S MEALS", "diagnosis_07_todays_meals.png")

ShotScripts ==
    { "capture_element", "capture_gauges", "capture_macro_detail",
      "capture_macros_final", "diagnose_cards" }

Script(p) ==
    CASE p = "capture_element"      -> capture_element
      [] p = "capture_gauges"       -> capture_gauges
      [] p = "capture_macro_detail" -> capture_macro_detail
      [] p = "capture_macros_final" -> capture_macros_final
      [] p = "diagnose_cards"       -> diagnose_cards

----------------------------------------------------------------------------
(* Execution of a screenshot script. *)

Ev(op, arg, res) == [op |-> op, arg |-> arg, res |-> res]

Running(op) ==
    /\ prog \in ShotScripts
    /\ mode = "run"
    /\ pc <= Len(Script(prog))
    /\ Script(prog)[pc].op = op

\* control after the call at pc returned: the call at `next`, or the end of
\* the try block, from which the finally clause runs
Continue(next) ==
    /\ pc' = next
    /\ mode' = IF next > Len(Script(prog)) THEN "finally" ELSE "run"

\* the call at pc raised and the exception is dropped: the script goes on
RaiseSwallowed ==
    Continue(pc + 1)

\* the call at pc raised: inside the try block the except clause takes it,
\* before the try block it leaves the function
Raise ==
    /\ pc' = pc
    /\ mode' = IF pc >= TryStart THEN "except" ELSE "raised"

\* the call at pc is logged and either returned or raised
Outcome(op, ok) ==
    /\ trace' = Append(trace, Ev(op, Script(prog)[pc].arg,
                                 IF ok THEN "ok" ELSE "raised"))
    /\ IF ok THEN Continue(pc + 1) ELSE Raise

\* browser = await p.chromium.launch(headless=False)
Launch ==
    /\ Running("launch")
    /\ \E ok \in BOOLEAN : Outcome("launch", ok)
    /\ UNCHANGED <<prog, handle, dbVars, crawlVars, extVars>>

\* context = await browser.new_context(...)
NewContext ==
    /\ Running("new_context")
    /\ \E ok \in BOOLEAN : Outcome("new_context", ok)
    /\ UNCHANGED <<prog, handle, dbVars, crawlVars, extVars>>

\* page = await context.new_page()
NewPage ==
    /\ Running("new_page")
    /\ \E ok \in BOOLEAN : Outcome("new_page", ok)
    /\ UNCHANGED <<prog, handle, dbVars, crawlVars, extVars>>

\* await page.goto('http://localhost:8081', wait_until='networkidle', timeout=60000)
Goto ==
    /\ Running("goto")
    /\ \E ok \in BOOLEAN : Outcome("goto", ok)
    /\ UNCHANGED <<prog, handle, dbVars, crawlVars, extVars>>

\* await page.wait_for_timeout(ms)
WaitForTimeout ==
    /\ Running("wait_for_timeout")
    /\ \E ok \in BOOLEAN : Outcome("wait_for_timeout", ok)
    /\ UNCHANGED <<prog, handle, dbVars, crawlVars, extVars>>

\* await page.evaluate('window.scrollTo(0, y)')
Evaluate ==
    /\ Running("evaluate")
    /\ \E ok \in BOOLEAN : Outcome("evaluate", ok)
    /\ UNCHANGED <<prog, handle, dbVars, crawlVars, extVars>>

\* await page.screenshot(path=...)
Screenshot ==
    /\ Running("screenshot")
    /\ \E ok \in BOOLEAN : Outcome("screenshot", ok)
    /\ UNCHANGED <<prog, handle, dbVars, crawlVars, extVars>>

\* query_selector without the `if element:` test: the block always runs
QuerySelectorNoIf ==
    /\ Running("query_selector")
    /\ LET ins == Script(prog)[pc] IN
       \E res \in {"found", "absent", "raised"} :
          /\ trace' = Append(trace, Ev("query_selector", ins.arg, res))
          /\ handle' = CASE res = "found"  -> ins.arg
                         [] res = "absent" -> "None"
                         [] OTHER          -> handle
          /\ IF res = "raised" THEN Raise ELSE Continue(pc + 1)
    /\ UNCHANGED <<prog, dbVars, crawlVars, extVars>>

\* element = await page.query_selector(sel); if element: <body>
QuerySelector ==
    /\ Running("query_selector")
    /\ LET ins == Script(prog)[pc] IN
       \E res \in {"found", "absent", "raised"} :
          /\ trace' = Append(trace, Ev("query_selector", ins.arg, res))
          /\ handle' = CASE res = "found"  -> ins.arg
                         [] res = "absent" -> "None"
                         [] OTHER          -> handle
          /\ CASE res = "found"  -> Continue(pc + 1)
               [] res = "absent" -> Continue(pc + 1 + ins.body)
               [] OTHER          -> Raise
    /\ UNCHANGED <<prog, dbVars, crawlVars, extVars>>

\* await element.click(): on None it raises AttributeError before any click
Click ==
    /\ Running("click")
    /\ LET ins == Script(prog)[pc] IN
       \E ok \in BOOLEAN :
          /\ trace' = Append(trace, Ev("click", ins.arg,
                        IF handle # ins.arg THEN "no_element"
                        ELSE IF ok THEN "ok" ELSE "raised"))
          /\ IF ok /\ handle = ins.arg THEN Continue(pc + 1) ELSE Raise
    /\ UNCHANGED <<prog, handle, dbVars, crawlVars, extVars>>

\* an except clause with no finally after it: browser.close() is only at
\* the end of the try block
ExceptClauseNoFinally ==
    /\ prog \in ShotScripts
    /\ mode = "except"
    /\ trace' = Append(trace, Ev("print", "Error", "ok"))
    /\ mode' = "exit"
    /\ UNCHANGED <<prog, pc, handle, dbVars, crawlVars, extVars>>

\* except Exception as e: print(f"Error: {e}"); traceback.print_exc()
ExceptClause ==
    /\ prog \in ShotScripts
    /\ mode = "except"
    /\ trace' = Append(trace, Ev("print", "Error", "ok"))
    /\ mode' = "finally"
    /\ UNCHANGED <<prog, pc, handle, dbVars, crawlVars, extVars>>

\* finally: await browser.close()
FinallyClose ==
    /\ prog \in ShotScripts
    /\ mode = "finally"
    /\ trace' = Append(trace, Ev("close", "browser", "ok"))
    /\ mode' = "exit"
    /\ UNCHANGED <<prog, pc, handle, dbVars, crawlVars, extVars>>

ShotNext ==
    \/ Launch \/ NewContext \/ NewPage
    \/ Goto \/ WaitForTimeout \/ Evaluate \/ Screenshot
    \/ QuerySelector \/ Click
    \/ ExceptClause \/ FinallyClose

----------------------------------------------------------------------------
(* The three database scripts. *)

\* the two columns the migration adds to workout_plans
NewCols == {"cardio_recommendations", "nutrition_guidance"}

check_tables ==
    << I("connect", "DATABASE_URL"),
       I("cursor", ""),
       I("execute", "SELECT table_name"),
       I("fetchall", "tables"),
       I("execute", "SELECT columns OF workout_plans"),
       I("fetchall", "columns"),
       I("cursor.close", ""),
       I("conn.close", "") >>

check_user_profiles ==
    << I("connect", "DATABASE_URL"),
       I("cursor", ""),
       I("execute", "SELECT columns OF user_profiles"),
       I("fetchall", "columns"),
       I("execute", "SELECT columns OF user_goals"),
       I("fetchall", "columns"),
       I("cursor.close", ""),
       I("conn.close", "") >>

run_migration ==
    << I("connect", "DATABASE_URL"),
       I("cursor", ""),
       I("execute", "ALTER TABLE workout_plans ADD COLUMN IF NOT EXISTS"),
       I("commit", ""),
       I("execute", "SELECT NewCols OF workout_plans"),
       I("fetchall", "results"),
       I("cursor.close", ""),
       I("conn.close", "") >>

DbScripts == { "check_tables", "check_user_profiles", "run_migration" }

DbScript(p) ==
    CASE p = "check_tables"        -> check_tables
      [] p = "check_user_profiles" -> check_user_profiles
      [] p = "run_migration"       -> run_migration

DbRunning(op) ==
    /\ prog \in DbScripts
    /\ mode = "run"
    /\ pc <= Len(DbScript(prog))
    /\ DbScript(prog)[pc].op = op

DbLog(res) ==
    trace' = Append(trace, Ev(DbScript(prog)[pc].op, DbScript(prog)[pc].arg, res))

\* the call at pc returned: the next call, or `return True` after the last
DbContinue ==
    /\ pc' = pc + 1
    /\ IF pc + 1 > Len(DbScript(prog))
       THEN mode' = "returned" /\ ret' = "True"
       ELSE mode' = "run" /\ ret' = ret

\* the call at pc raised outside of any try block: the exception leaves
\* the function
DbRaiseUncaught ==
    /\ pc' = pc
    /\ mode' = "raised"
    /\ ret' = ret

\* the call at pc raised: every call is inside the try block
DbRaise ==
    /\ pc' = pc
    /\ mode' = "except"
    /\ ret' = ret

\* conn = psycopg2.connect(DATABASE_URL)
Connect ==
    /\ DbRunning("connect")
    /\ \E ok \in BOOLEAN :
          /\ DbLog(IF ok THEN "ok" ELSE "raised")
          /\ conn' = IF ok THEN "open" ELSE conn
          /\ IF ok THEN DbContinue ELSE DbRaise
    /\ UNCHANGED <<prog, handle, cursor, db, tx, rows, exit_status, crawlVars, extVars>>

\* cursor = conn.cursor()
Cursor ==
    /\ DbRunning("cursor")
    /\ \E ok \in BOOLEAN :
          /\ DbLog(IF ok THEN "ok" ELSE "raised")
          /\ cursor' = IF ok THEN "open" ELSE cursor
          /\ IF ok THEN DbContinue ELSE DbRaise
    /\ UNCHANGED <<prog, handle, conn, db, tx, rows, exit_status, crawlVars, extVars>>

\* what the open transaction sees of workout_plans
Visible == IF db.table THEN db.cols \cup tx ELSE {}

\* the ALTER TABLE written with ADD COLUMN, without IF NOT EXISTS: it raises
\* when one of the columns is already there
ExecuteAddColumn ==
    /\ DbRunning("execute")
    /\ LET sql == DbScript(prog)[pc].arg
           alter == sql = "ALTER TABLE workout_plans ADD COLUMN IF NOT EXISTS"
           verify == sql = "SELECT NewCols OF workout_plans" IN
       \E ok \in BOOLEAN :
          /\ alter /\ (~db.table \/ Visible \cap NewCols # {}) => ~ok
          /\ DbLog(IF ok THEN "ok" ELSE "raised")
          /\ tx' = IF ok /\ alter THEN tx \cup (NewCols \ db.cols) ELSE tx
          /\ rows' \in IF ~ok THEN {rows}
                       ELSE IF alter THEN {{}}
                       ELSE IF verify THEN {Visible \cap NewCols}
                       ELSE {{}, {"row"}}
          /\ IF ok THEN DbContinue ELSE DbRaise
    /\ UNCHANGED <<prog, handle, conn, cursor, db, exit_status, crawlVars, extVars>>

\* cursor.execute(sql).  ALTER TABLE ... ADD COLUMN IF NOT EXISTS succeeds on
\* an existing table whether or not the columns are there, and raises when
\* the table is missing; the SELECTs on information_schema succeed on any schema.
Execute ==
    /\ DbRunning("execute")
    /\ LET sql == DbScript(prog)[pc].arg
           alter == sql = "ALTER TABLE workout_plans ADD COLUMN IF NOT EXISTS"
           verify == sql = "SELECT NewCols OF workout_plans" IN
       \E ok \in BOOLEAN :
          /\ alter /\ ~db.table => ~ok
          /\ DbLog(IF ok THEN "ok" ELSE "raised")
          /\ tx' = IF ok /\ alter THEN tx \cup (NewCols \ db.cols) ELSE tx
          /\ rows' \in IF ~ok THEN {rows}
                       ELSE IF alter THEN {{}}
                       ELSE IF verify THEN {Visible \cap NewCols}
                       ELSE {{}, {"row"}}
          /\ IF ok THEN DbContinue ELSE DbRaise
    /\ UNCHANGED <<prog, handle, conn, cursor, db, exit_status, crawlVars, extVars>>

\* x = cursor.fetchall(), and the print that depends on whether x is empty
Fetchall ==
    /\ DbRunning("fetchall")
    /\ \E ok \in BOOLEAN :
          /\ DbLog(IF ~ok THEN "raised" ELSE IF rows = {} THEN "empty" ELSE "rows")
          /\ IF ok THEN DbContinue ELSE DbRaise
    /\ UNCHANGED <<prog, handle, conn, cursor, db, tx, rows, exit_status, crawlVars, extVars>>

\* conn.commit(): when it raises (the connection broke), the server may or
\* may not have committed
Commit ==
    /\ DbRunning("commit")
    /\ \E ok \in BOOLEAN, applied \in BOOLEAN :
          /\ ok => applied
          /\ DbLog(IF ok THEN "ok" ELSE "raised")
          /\ db' = IF applied THEN [db EXCEPT !.cols = @ \cup tx] ELSE db
          /\ tx' = IF applied THEN {} ELSE tx
          /\ IF ok THEN DbContinue ELSE DbRaise
    /\ UNCHANGED <<prog, handle, conn, cursor, rows, exit_status, crawlVars, extVars>>

\* cursor.close()
CursorClose ==
    /\ DbRunning("cursor.close")
    /\ \E ok \in BOOLEAN :
          /\ DbLog(IF ok THEN "ok" ELSE "raised")
          /\ cursor' = IF ok THEN "closed" ELSE cursor
          /\ IF ok THEN DbContinue ELSE DbRaise
    /\ UNCHANGED <<prog, handle, conn, db, tx, rows, exit_status, crawlVars, extVars>>

\* conn.close(); return True
ConnClose ==
    /\ DbRunning("conn.close")
    /\ \E ok \in BOOLEAN :
          /\ DbLog(IF ok THEN "ok" ELSE "raised")
          /\ conn' = IF ok THEN "closed" ELSE conn
          /\ IF ok THEN DbContinue ELSE DbRaise
    /\ UNCHANGED <<prog, handle, cursor, db, tx, rows, exit_status, crawlVars, extVars>>

\* the handler followed by a finally clause that closes what was opened
DbExceptCloses ==
    /\ prog \in DbScripts
    /\ mode = "except"
    /\ trace' = Append(trace, Ev("print", "[ERROR]", "ok"))
    /\ ret' = "False"
    /\ mode' = "returned"
    /\ cursor' = IF cursor = "open" THEN "closed" ELSE cursor
    /\ conn' = IF conn = "open" THEN "closed" ELSE conn
    /\ UNCHANGED <<prog, pc, handle, db, tx, rows, exit_status, crawlVars, extVars>>

\* except Exception as e: print(f"[ERROR] ... {e}"); return False
DbExcept ==
    /\ prog \in DbScripts
    /\ mode = "except"
    /\ trace' = Append(trace, Ev("print", "[ERROR]", "ok"))
    /\ ret' = "False"
    /\ mode' = "returned"
    /\ UNCHANGED <<prog, pc, handle, conn, cursor, db, tx, rows, exit_status, crawlVars, extVars>>

\* the result of the function is dropped, as in the two check scripts
ExitStatusIgnored(success) == 0

\* sys.exit(0 if success else 1)
ExitStatus(success) == IF success = "True" THEN 0 ELSE 1

\* the `if __name__ == "__main__":` block: run_migration exits with
\* ExitStatus(success); the other two drop the result and end normally
MainExit ==
    /\ prog \in DbScripts
    /\ mode = "returned"
    /\ mode' = "exit"
    /\ exit_status' = IF prog = "run_migration" THEN ExitStatus(ret) ELSE 0
    /\ UNCHANGED <<prog, pc, handle, trace, conn, cursor, db, tx, rows, ret, crawlVars, extVars>>

DbNext ==
    \/ Connect \/ Cursor \/ Execute \/ Fetchall \/ Commit
    \/ CursorClose \/ ConnClose
    \/ DbExcept \/ MainExit

\* how many times run_migration.py is run against the same database
MaxRuns == 3

\* python run_migration.py once more, after the process before has ended: a
\* new process against the database as that run left it; what was not
\* committed is gone; env.runs keeps the schema and the result of each run
\* that has ended
Rerun ==
    /\ prog = "run_migration"
    /\ mode = "exit"
    /\ Len(env.runs) + 1 < MaxRuns
    /\ env' = [env EXCEPT !.runs = Append(@, [schema |-> db, ret |-> ret])]
    /\ mode' = "run"
    /\ pc' = 1
    /\ trace' = << >>
    /\ conn' = "None"
    /\ cursor' = "None"
    /\ tx' = {}
    /\ rows' = {}
    /\ ret' = "None"
    /\ exit_status' = -1
    /\ UNCHANGED <<prog, handle, db, crawlVars, img, files, conversion_success>>

MigrateNext == DbNext \/ Rerun

----------------------------------------------------------------------------
(* The website crawler, crawl_heirclark. *)

\* the list with one page entered twice
pages_to_visit_repeated ==
    << "https://heirclark.com",
       "https://heirclark.com/pages/calorie-counter",
       "https://heirclark.com/pages/calorie-counter",
       "https://heirclark.com/pages/meals",
       "https://heirclark.com/pages/programs",
       "https://heirclark.com/pages/settings" >>

pages_to_visit ==
    << "https://heirclark.com",
       "https://heirclark.com/pages/calorie-counter",
       "https://heirclark.com/pages/steps",
       "https://heirclark.com/pages/meals",
       "https://heirclark.com/pages/programs",
       "https://heirclark.com/pages/settings" >>

\* the URL the feature analysis opens
FeatureUrl == "https://heirclark.com/pages/calorie-counter"

\* (feature_name, search_text)
features_to_check ==
    << <<"Daily Balance", "Daily Balance">>,
       <<"Macros", "Protein">>,
       <<"Today's Meals", "Breakfast">>,
       <<"Daily Fat Loss", "FAT LOSS">>,
       <<"Weekly Progress", "WEEKLY PROGRESS">>,
       <<"Dining Out", "DINING OUT">>,
       <<"Wearable Sync", "WEARABLE SYNC">>,
       <<"Log Meal", "Log Meal">> >>

\* nothing raised and no probe ran yet
NoIter == [raised |-> {}, probes |-> {}]

Crawling(label) ==
    /\ prog = "crawl_heirclark_website"
    /\ mode = "run"
    /\ at = label

\* the current URL of the for loop
url == pages_to_visit[i]

\* a URL of the list as the pieces a "/" separates, each "/" a piece itself
Pieces(u) ==
    LET site_root == << "https:", "/", "/", "heirclark.com" >>
        Page(name) == site_root \o << "/", "pages", "/", name >>
    IN CASE u = "https://heirclark.com" -> site_root
         [] u = "https://heirclark.com/pages/calorie-counter" -> Page("calorie-counter")
         [] u = "https://heirclark.com/pages/steps" -> Page("steps")
         [] u = "https://heirclark.com/pages/meals" -> Page("meals")
         [] u = "https://heirclark.com/pages/programs" -> Page("programs")
         [] u = "https://heirclark.com/pages/settings" -> Page("settings")

\* str.split("/") on pieces: the strings between the separators, the empty
\* string where two separators meet and at either end
RECURSIVE Split(_)
Split(t) ==
    IF t = << >> THEN << "" >>
    ELSE IF Head(t) = "/" THEN << "" >> \o Split(Tail(t))
    ELSE << Head(t) >> \o Tail(Split(Tail(t)))

\* url.split("/")[-1] or "home", the name between 'screenshots/' and '.png'
ScreenshotName(u) ==
    LET segments == Split(Pieces(u))
        last == segments[Len(segments)]
    IN IF last # "" THEN last ELSE "home"

\* a call of the setup, before any try block: an exception leaves the function
CrawlSetup(label, next) ==
    /\ \E ok \in BOOLEAN :
          /\ trace' = Append(trace, Ev(label, "", IF ok THEN "ok" ELSE "raised"))
          /\ at' = IF ok THEN next ELSE at
          /\ mode' = IF ok THEN "run" ELSE "raised"
    /\ UNCHANGED <<prog, pc, handle, dbVars, i, visited_pages, page_data, results, site, iter, extVars>>

\* browser = await p.chromium.launch(headless=False)
CrawlLaunch ==
    /\ Crawling("launch")
    /\ CrawlSetup("launch", "new_context")

\* context = await browser.new_context(...)
CrawlNewContext ==
    /\ Crawling("new_context")
    /\ CrawlSetup("new_context", "new_page")

\* page = await context.new_page()
CrawlNewPage ==
    /\ Crawling("new_page")
    /\ CrawlSetup("new_page", "for")

\* the call named `call` raised in this iteration
Raises(call) == [iter EXCEPT !.raised = @ \cup {call}]

\* for url in pages_to_visit: if url in visited_pages: continue;
\* visited_pages.add(url); what the iteration before raised is forgotten
ForEach ==
    /\ Crawling("for")
    /\ iter' = NoIter
    /\ IF i > Len(pages_to_visit)
       THEN /\ at' = "feat_goto"
            /\ UNCHANGED <<i, visited_pages, trace>>
       ELSE IF url \in visited_pages
       THEN /\ at' = "for"
            /\ i' = i + 1
            /\ trace' = Append(trace, Ev("continue", url, "skipped"))
            /\ UNCHANGED visited_pages
       ELSE /\ at' = "goto"
            /\ visited_pages' = visited_pages \cup {url}
            /\ UNCHANGED <<i, trace>>
    /\ UNCHANGED <<prog, mode, pc, handle, dbVars, page_data, results, site, extVars>>

\* a navigation that is tried a second time when it fails
CrawlGotoRetry ==
    /\ Crawling("goto")
    /\ \E ok \in BOOLEAN, again \in BOOLEAN :
          /\ trace' = IF ok THEN Append(trace, Ev("goto", url, "ok"))
                      ELSE Append(Append(trace, Ev("goto", url, "raised")),
                                  Ev("goto", url, IF again THEN "ok" ELSE "raised"))
          /\ at' = IF ok \/ again THEN "wait" ELSE "except"
          /\ iter' = IF ok \/ again THEN iter ELSE Raises("goto")
    /\ UNCHANGED <<prog, mode, pc, handle, dbVars, i, visited_pages, page_data, results, site, extVars>>

\* await page.goto(url, wait_until='networkidle', timeout=30000)
CrawlGoto ==
    /\ Crawling("goto")
    /\ \E ok \in BOOLEAN :
          /\ trace' = Append(trace, Ev("goto", url, IF ok THEN "ok" ELSE "raised"))
          /\ at' = IF ok THEN "wait" ELSE "except"
          /\ iter' = IF ok THEN iter ELSE Raises("goto")
    /\ UNCHANGED <<prog, mode, pc, handle, dbVars, i, visited_pages, page_data, results, site, extVars>>

\* a call of the loop body whose result the model does not keep: it returns,
\* or raises into the loop's except clause
BodyCall(next) ==
    /\ \E ok \in BOOLEAN :
          /\ at' = IF ok THEN next ELSE "except"
          /\ iter' = IF ok THEN iter ELSE Raises(at)
    /\ UNCHANGED <<prog, mode, pc, handle, trace, dbVars, i, visited_pages, page_data, results, site, extVars>>

\* await page.wait_for_timeout(2000)
CrawlWait ==
    /\ Crawling("wait")
    /\ BodyCall("title")

\* page_data = {'url': url, 'title': await page.title(), ..., 'components': []}
CrawlTitle ==
    /\ Crawling("title")
    /\ \E ok \in BOOLEAN :
          /\ at' = IF ok THEN "screenshot" ELSE "except"
          /\ page_data' = IF ok
                          THEN [url |-> url,
                                screenshot |-> ScreenshotName(url),
                                components |-> << >>]
                          ELSE page_data
          /\ iter' = IF ok THEN iter ELSE Raises("title")
    /\ UNCHANGED <<prog, mode, pc, handle, trace, dbVars, i, visited_pages, results, site, extVars>>

\* await page.screenshot(path=page_data['screenshot'], full_page=True)
CrawlScreenshot ==
    /\ Crawling("screenshot")
    /\ BodyCall("cards")

\* elements = await page.query_selector_all(...), which returns or raises
\* into the loop's except clause, and the loop over the elements: each is
\* read inside a try whose handler is `except Exception: pass`, so that an
\* exception of inner_text or get_attribute (recorded as `each`) goes no
\* further
ElementLoopPropagates(each, next) ==
    /\ \E ok \in BOOLEAN, failed \in BOOLEAN :
          /\ at' = IF ok /\ ~failed THEN next ELSE "except"
          /\ iter' = IF ~ok THEN Raises(at)
                     ELSE IF failed THEN Raises(each) ELSE iter
    /\ UNCHANGED <<prog, mode, pc, handle, trace, dbVars, i, visited_pages, page_data, results, site, extVars>>

ElementLoop(each, next) ==
    /\ \E ok \in BOOLEAN, failed \in BOOLEAN :
          /\ at' = IF ok THEN next ELSE "except"
          /\ iter' = IF ~ok THEN Raises(at)
                     ELSE IF failed THEN Raises(each) ELSE iter
    /\ UNCHANGED <<prog, mode, pc, handle, trace, dbVars, i, visited_pages, page_data, results, site, extVars>>

\* cards = await page.query_selector_all(...) and the loop over cards[:20]
CrawlCards ==
    /\ Crawling("cards")
    /\ ElementLoop("card", "buttons")

\* buttons = await page.query_selector_all(...) and the loop over buttons[:30]
CrawlButtons ==
    /\ Crawling("buttons")
    /\ ElementLoop("button", "forms")

\* inputs = await page.query_selector_all(...) and the loop over inputs
CrawlForms ==
    /\ Crawling("forms")
    /\ BodyCall("modals")

\* modals = await page.query_selector_all(...) and the loop over modals
CrawlModals ==
    /\ Crawling("modals")
    /\ BodyCall("log_meal")

\* how a probe can end: the element is absent; it is there, is clicked and
\* the component is appended; a call before the append raises; and, in the
\* Log Meal probe only, a call after the append (closing the modal) raises
ProbeOutcomes(name) ==
    {"absent", "appended", "raised"} \cup
        IF name = "Log Meal Modal" THEN {"appended, raised"} ELSE {}

\* a probe whose exception is not caught by a try block of its own
ProbeUncaught(name, next) ==
    /\ \E res \in ProbeOutcomes(name) :
          /\ page_data' = IF res \in {"appended", "appended, raised"}
                          THEN [page_data EXCEPT !.components = Append(@, name)]
                          ELSE page_data
          /\ iter' = [raised |-> IF res \in {"raised", "appended, raised"}
                                 THEN iter.raised \cup {at} ELSE iter.raised,
                      probes |-> iter.probes \cup {at}]
          /\ at' = IF res \in {"raised", "appended, raised"}
                   THEN "except" ELSE next
    /\ UNCHANGED <<prog, mode, pc, handle, trace, dbVars, i, visited_pages, results, site, extVars>>

\* one of the three interaction probes, each in a try block of its own:
\* the element is looked up and, if there, clicked, and the component is
\* appended; an exception before or after the append is printed as a warning
\* by the probe's except clause and the statement after the probe follows
Probe(name, next) ==
    /\ \E res \in ProbeOutcomes(name) :
          /\ page_data' = IF res \in {"appended", "appended, raised"}
                          THEN [page_data EXCEPT !.components = Append(@, name)]
                          ELSE page_data
          /\ iter' = [raised |-> IF res \in {"raised", "appended, raised"}
                                 THEN iter.raised \cup {at} ELSE iter.raised,
                      probes |-> iter.probes \cup {at}]
    /\ at' = next
    /\ UNCHANGED <<prog, mode, pc, handle, trace, dbVars, i, visited_pages, results, site, extVars>>

LogMealProbe ==
    /\ Crawling("log_meal")
    /\ Probe("Log Meal Modal", "date")

DateProbe ==
    /\ Crawling("date")
    /\ Probe("Date Selector", "sync")

SyncProbe ==
    /\ Crawling("sync")
    /\ Probe("Sync Button", "append")

\* page_data before its assignment in the loop body; it is not read again
\* once the iteration that assigned it has ended, and the model forgets it there
NoPage == [url |-> "", components |-> << >>]

\* results['pages'].append(page_data), and the next URL; of page_data the
\* model keeps the 'url' in results['pages']
AppendPage ==
    /\ Crawling("append")
    /\ results' = [results EXCEPT !.pages = Append(@, page_data.url)]
    /\ page_data' = NoPage
    /\ i' = i + 1
    /\ at' = "for"
    /\ UNCHANGED <<prog, mode, pc, handle, trace, dbVars, visited_pages, site, iter, extVars>>

\* an except clause that drops the error: except Exception: pass
CrawlExceptPass ==
    /\ Crawling("except")
    /\ page_data' = NoPage
    /\ i' = i + 1
    /\ at' = "for"
    /\ UNCHANGED <<prog, mode, pc, handle, trace, dbVars, visited_pages, results, site, iter, extVars>>

\* except Exception as e: results['errors'].append({'url': url, 'error': str(e)}),
\* and the next URL
CrawlExcept ==
    /\ Crawling("except")
    /\ results' = [results EXCEPT !.errors = Append(@, url)]
    /\ page_data' = NoPage
    /\ i' = i + 1
    /\ at' = "for"
    /\ UNCHANGED <<prog, mode, pc, handle, trace, dbVars, visited_pages, site, iter, extVars>>

\* await page.goto('https://heirclark.com/pages/calorie-counter', wait_until='networkidle')
FeatGoto ==
    /\ Crawling("feat_goto")
    /\ \E ok \in BOOLEAN :
          /\ trace' = Append(trace, Ev("goto", FeatureUrl, IF ok THEN "ok" ELSE "raised"))
          /\ at' = IF ok THEN "feat_wait" ELSE "feat_except"
    /\ UNCHANGED <<prog, mode, pc, handle, dbVars, i, visited_pages, page_data, results, site, iter, extVars>>

\* await page.wait_for_timeout(2000)
FeatWait ==
    /\ Crawling("feat_wait")
    /\ \E ok \in BOOLEAN : at' = IF ok THEN "feat_check" ELSE "feat_except"
    /\ UNCHANGED <<prog, mode, pc, handle, trace, dbVars, i, visited_pages, page_data, results, site, iter, extVars>>

\* for feature_name, search_text in features_to_check:
\*     exists = await page.is_visible(...); results['features'].append(...)
FeatCheck ==
    /\ Crawling("feat_check")
    /\ LET k == Len(results.features) + 1 IN
       IF k > Len(features_to_check)
       THEN at' = "close" /\ UNCHANGED results
       ELSE \E ok \in BOOLEAN :
               /\ at' = IF ok THEN "feat_check" ELSE "feat_except"
               /\ results' = IF ok
                     THEN [results EXCEPT !.features = Append(@,
                             [name |-> features_to_check[k][1],
                              present |-> features_to_check[k][2] \in site])]
                     ELSE results
    /\ UNCHANGED <<prog, mode, pc, handle, trace, dbVars, i, visited_pages, page_data, site, iter, extVars>>

\* the feature analysis with no try block around it: the exception leaves
\* the function
FeatExceptUncaught ==
    /\ Crawling("feat_except")
    /\ mode' = "raised"
    /\ UNCHANGED <<prog, at, pc, handle, trace, dbVars, i, visited_pages, page_data, results, site, iter, extVars>>

\* except Exception as e: print(f"  [ERROR] Feature analysis error: {e}")
FeatExcept ==
    /\ Crawling("feat_except")
    /\ at' = "close"
    /\ UNCHANGED <<prog, mode, pc, handle, trace, dbVars, i, visited_pages, page_data, results, site, iter, extVars>>

\* await browser.close()
CrawlClose ==
    /\ Crawling("close")
    /\ trace' = Append(trace, Ev("close", "browser", "ok"))
    /\ at' = "write"
    /\ UNCHANGED <<prog, mode, pc, handle, dbVars, i, visited_pages, page_data, results, site, iter, extVars>>

\* with open('website_crawl_results.json', 'w') as f: json.dump(results, f);
\* return results
WriteResults ==
    /\ Crawling("write")
    /\ trace' = Append(trace, Ev("write", "website_crawl_results.json", "ok"))
    /\ at' = "return"
    /\ mode' = "exit"
    /\ UNCHANGED <<prog, pc, handle, dbVars, i, visited_pages, page_data, results, site, iter, extVars>>

CrawlNext ==
    \/ CrawlLaunch \/ CrawlNewContext \/ CrawlNewPage
    \/ ForEach \/ CrawlGoto \/ CrawlWait \/ CrawlTitle \/ CrawlScreenshot
    \/ CrawlCards \/ CrawlButtons \/ CrawlForms \/ CrawlModals
    \/ LogMealProbe \/ DateProbe \/ SyncProbe
    \/ AppendPage \/ CrawlExcept
    \/ FeatGoto \/ FeatWait \/ FeatCheck \/ FeatExcept
    \/ CrawlClose \/ WriteResults

\* what the calorie-counter page shows, as far as the feature analysis looks
Sites ==
    { {},
      {"Daily Balance", "Protein", "Breakfast", "Log Meal"},
      {features_to_check[k][2] : k \in 1..Len(features_to_check)} }

----------------------------------------------------------------------------
(* process_app_icon: the module body, one statement group at a time.  An    *)
(* image is held as its size, its mode and one pixel that stands for all    *)
(* of them (a uniformly coloured picture): px is the colour value of the    *)
(* pixel, alpha its alpha value, NoAlpha in a mode without an alpha band.   *)

MaxSide == 2

\* the size passed to img_square.resize
Target == 1024

NoAlpha == 0 - 1

NoImage == [size |-> <<0, 0>>, mode |-> "", px |-> 0, alpha |-> NoAlpha,
            box |-> <<0, 0, 0, 0>>]

OutputNames == {"icon.png", "adaptive-icon.png", "splash-icon.png"}

NoFiles == [n \in OutputNames |-> NoImage]

\* no input file and no tools: the script uses none
NoEnv == [input |-> NoImage]

Sides == (1..MaxSide) \cup {Target - 1, Target, Target + 1, 2 * Target}

Modes == {"RGB", "L", "P", "LA", "RGBA"}

\* the pictures input_path can hold: an alpha value in the modes that have
\* an alpha band, none in the others
Inputs ==
    { r \in [size : Sides \X Sides, mode : Modes, px : {0, 200},
             alpha : {0, 128, 255, NoAlpha}, box : {<<0, 0, 0, 0>>}] :
        (r.alpha = NoAlpha) <=> (r.mode \notin {"LA", "RGBA"}) }

Min(a, b) == IF a < b THEN a ELSE b

\* background.paste(img, mask=img.split()[3]) on a white background
Paste(v, a) == (v * a + 255 * (255 - a)) \div 255

IconAt(label) ==
    /\ prog = "process_app_icon"
    /\ mode = "run"
    /\ at = label

\* img = Image.open(input_path); width, height = img.size; the warning
IconOpen ==
    /\ IconAt("open")
    /\ img' = env.input
    /\ trace' = IF env.input.size[1] < Target \/ env.input.size[2] < Target
                THEN Append(trace, Ev("print", "[WARNING]", "ok"))
                ELSE trace
    /\ at' = "convert"
    /\ UNCHANGED <<prog, mode, pc, handle, dbVars, i, visited_pages,
                   page_data, results, site, iter, files, env,
                   conversion_success>>

IconConvertRGBAOnly ==
    /\ IconAt("convert")
    /\ img' = IF img.mode = "RGBA"
              THEN [img EXCEPT !.mode = "RGB", !.px = Paste(img.px, img.alpha),
                               !.alpha = NoAlpha]
              ELSE img
    /\ at' = "crop"
    /\ UNCHANGED <<prog, mode, pc, handle, trace, dbVars, i, visited_pages,
                   page_data, results, site, iter, files, env,
                   conversion_success>>

\* if img.mode == 'RGBA': paste on white; elif img.mode != 'RGB': convert
IconConvert ==
    /\ IconAt("convert")
    /\ img' = IF img.mode = "RGBA"
              THEN [img EXCEPT !.mode = "RGB", !.px = Paste(img.px, img.alpha),
                               !.alpha = NoAlpha]
              ELSE IF img.mode # "RGB"
              THEN [img EXCEPT !.mode = "RGB", !.alpha = NoAlpha]
              ELSE img
    /\ at' = "crop"
    /\ UNCHANGED <<prog, mode, pc, handle, trace, dbVars, i, visited_pages,
                   page_data, results, site, iter, files, env,
                   conversion_success>>

\* square_size, left, top, right, bottom; img.crop((left, top, right, bottom))
IconCrop ==
    /\ IconAt("crop")
    /\ LET width == img.size[1]
           height == img.size[2]
           square_size == Min(width, height)
           left == (width - square_size) \div 2
           top == (height - square_size) \div 2
           right == left + square_size
           bottom == top + square_size
       IN img' = [img EXCEPT !.size = <<right - left, bottom - top>>,
                             !.box = <<left, top, right, bottom>>]
    /\ at' = "resize"
    /\ UNCHANGED <<prog, mode, pc, handle, trace, dbVars, i, visited_pages,
                   page_data, results, site, iter, files, env,
                   conversion_success>>

IconResizeThumbnail ==
    /\ IconAt("resize")
    /\ img' = [img EXCEPT !.size = <<Min(img.size[1], Target),
                                     Min(img.size[2], Target)>>]
    /\ at' = "icon.png"
    /\ UNCHANGED <<prog, mode, pc, handle, trace, dbVars, i, visited_pages,
                   page_data, results, site, iter, files, env,
                   conversion_success>>

\* img_final = img_square.resize((1024, 1024), Image.Resampling.LANCZOS)
IconResize ==
    /\ IconAt("resize")
    /\ img' = [img EXCEPT !.size = <<Target, Target>>]
    /\ at' = "icon.png"
    /\ UNCHANGED <<prog, mode, pc, handle, trace, dbVars, i, visited_pages,
                   page_data, results, site, iter, files, env,
                   conversion_success>>

AfterSave(name) ==
    CASE name = "icon.png" -> "adaptive-icon.png"
      [] name = "adaptive-icon.png" -> "splash-icon.png"
      [] OTHER -> "verify"

\* the three img_final.save(..., 'PNG', optimize=True), in the order above
IconSave ==
    /\ prog = "process_app_icon"
    /\ mode = "run"
    /\ at \in OutputNames
    /\ files' = [files EXCEPT ![at] = img]
    /\ at' = AfterSave(at)
    /\ UNCHANGED <<prog, mode, pc, handle, trace, dbVars, i, visited_pages,
                   page_data, results, site, iter, img, env,
                   conversion_success>>

\* verify_img = Image.open(output_icon) and the prints of its size and mode;
\* the script ends and the interpreter exits with status 0
IconVerify ==
    /\ IconAt("verify")
    /\ trace' = trace \o << Ev("print", "size", files["icon.png"].size),
                           Ev("print", "mode", files["icon.png"].mode) >>
    /\ mode' = "done"
    /\ exit_status' = 0
    /\ UNCHANGED <<prog, pc, handle, conn, cursor, db, tx, rows, ret,
                   crawlVars, extVars>>

\* no statement of the script is inside a try: an exception raised by
\* Image.open, by an image operation or by save ends the interpreter with
\* a traceback and status 1
IconUncaught ==
    /\ prog = "process_app_icon"
    /\ mode = "run"
    /\ mode' = "raised"
    /\ exit_status' = 1
    /\ UNCHANGED <<prog, pc, handle, trace, conn, cursor, db, tx, rows, ret,
                   crawlVars, extVars>>

IconNext ==
    \/ IconOpen
    \/ IconConvert
    \/ IconCrop
    \/ IconResize
    \/ IconSave
    \/ IconVerify
    \/ IconUncaught

----------------------------------------------------------------------------
(* process_svg_icon: four conversion methods tried in turn, each the        *)
(* sequence of calls inside its try block, then the check of                *)
(* conversion_success and the verification of icon.png.                     *)

Step(op, arg) == [op |-> op, arg |-> arg]

\* the calls inside the try block of each of the four methods
Steps(method) ==
    LET svg2png == << Step("svg2png", "icon.png"),
                      Step("svg2png", "adaptive-icon.png"),
                      Step("svg2png", "splash-icon.png") >>
    IN CASE method = "method1" ->
              << Step("import", "cairosvg") >> \o svg2png
         [] method = "method2" ->
              << Step("import", "PIL"), Step("read", "input_svg"),
                 Step("Image.open", "svg_data"), Step("save", "icon.png"),
                 Step("save", "adaptive-icon.png"),
                 Step("save", "splash-icon.png") >>
         [] method = "method3" ->
              << Step("exists", "inkscape.exe"), Step("run", "inkscape"),
                 Step("copy2", "adaptive-icon.png"),
                 Step("copy2", "splash-icon.png") >>
         [] method = "method4" ->
              << Step("run", "pip"), Step("import", "cairosvg") >> \o svg2png
         [] OTHER -> << >>

\* the statement after a method's try statement
After(method) ==
    CASE method = "method1" -> "method2"
      [] method = "method2" -> "method3"
      [] method = "method3" -> "method4"
      [] OTHER -> "check"

\* the PNG a converter writes: output_width=1024, output_height=1024
Png1024 == [size |-> <<1024, 1024>>, mode |-> "RGBA", px |-> 0, alpha |-> 255,
            box |-> <<0, 0, 0, 0>>]

\* the machines the script runs on: cairosvg depends on Pillow, so a machine
\* that has cairosvg has Pillow
Machines ==
    { e \in [cairosvg : BOOLEAN, pillow : BOOLEAN, inkscape : BOOLEAN,
             input_svg : BOOLEAN] : e.cairosvg => e.pillow }

SvgAt(op) ==
    /\ prog = "process_svg_icon"
    /\ mode = "run"
    /\ pc \in 1..Len(Steps(at))
    /\ Steps(at)[pc].op = op

SvgArg == Steps(at)[pc].arg

\* the call returned (the next statement of the try block follows) or raised
\* an exception of class err
SvgOutcome(ok, err) ==
    /\ mode' = IF ok THEN "run" ELSE "raised"
    /\ pc' = IF ok THEN pc + 1 ELSE pc
    /\ trace' = Append(trace, Ev(Steps(at)[pc].op, SvgArg,
                                 IF ok THEN "ok" ELSE err))

\* `if not conversion_success:` in front of methods 2, 3 and 4
SvgIfNotSuccess ==
    /\ prog = "process_svg_icon"
    /\ mode = "run"
    /\ at \in {"method2", "method3", "method4"}
    /\ pc = 0
    /\ IF conversion_success
       THEN at' = After(at) /\ pc' = IF After(at) = "check" THEN 1 ELSE 0
       ELSE at' = at /\ pc' = 1
    /\ UNCHANGED <<prog, mode, handle, trace, dbVars, i, visited_pages,
                   page_data, results, site, iter, extVars>>

\* import cairosvg / from PIL import Image
SvgImport ==
    /\ SvgAt("import")
    /\ SvgOutcome(IF SvgArg = "PIL" THEN env.pillow ELSE env.cairosvg,
                  "ImportError")
    /\ UNCHANGED <<prog, handle, dbVars, crawlVars, extVars>>

\* cairosvg.svg2png(url=input_svg, write_to=..., 1024, 1024)
SvgSvg2png ==
    /\ SvgAt("svg2png")
    /\ \E ok \in {env.input_svg, FALSE} :
        /\ SvgOutcome(ok, "Exception")
        /\ files' = IF ok THEN [files EXCEPT ![SvgArg] = Png1024] ELSE files
    /\ UNCHANGED <<prog, handle, dbVars, crawlVars, img, env,
                   conversion_success>>

\* with open(input_svg, 'r') as f: svg_data = f.read()
SvgRead ==
    /\ SvgAt("read")
    /\ SvgOutcome(env.input_svg, "Exception")
    /\ UNCHANGED <<prog, handle, dbVars, crawlVars, extVars>>

\* img = Image.open(io.BytesIO(svg_data.encode())); img = img.resize(...):
\* works only if Pillow has an SVG plugin
SvgImageOpen ==
    /\ SvgAt("Image.open")
    /\ \E ok \in BOOLEAN :
        /\ SvgOutcome(ok, "Exception")
        /\ img' = IF ok THEN Png1024 ELSE img
    /\ UNCHANGED <<prog, handle, dbVars, crawlVars, files, env,
                   conversion_success>>

\* img.save(..., 'PNG')
SvgSave ==
    /\ SvgAt("save")
    /\ \E ok \in BOOLEAN :
        /\ SvgOutcome(ok, "Exception")
        /\ files' = IF ok THEN [files EXCEPT ![SvgArg] = img] ELSE files
    /\ UNCHANGED <<prog, handle, dbVars, crawlVars, img, env,
                   conversion_success>>

\* the search of inkscape_paths and `if inkscape_exe:`; the else branch
\* prints [SKIP] and leaves the try statement
SvgFindInkscape ==
    /\ SvgAt("exists")
    /\ trace' = Append(trace, Ev("exists", SvgArg,
                                 IF env.inkscape THEN "found" ELSE "[SKIP]"))
    /\ IF env.inkscape
       THEN at' = at /\ pc' = pc + 1
       ELSE at' = After(at) /\ pc' = 0
    /\ UNCHANGED <<prog, mode, handle, dbVars, i, visited_pages,
                   page_data, results, site, iter, extVars>>

\* subprocess.run([...], check=True, capture_output=True): Inkscape exporting
\* icon.png, or pip installing cairosvg together with the Pillow it requires
SvgRun ==
    /\ SvgAt("run")
    /\ \E ok \in BOOLEAN :
        /\ SvgOutcome(IF SvgArg = "inkscape" THEN ok /\ env.input_svg ELSE ok,
                      "Exception")
        /\ files' = IF SvgArg = "inkscape" /\ ok /\ env.input_svg
                    THEN [files EXCEPT !["icon.png"] = Png1024]
                    ELSE files
        /\ env' = IF SvgArg = "pip" /\ ok
                  THEN [env EXCEPT !.cairosvg = TRUE, !.pillow = TRUE]
                  ELSE env
    /\ UNCHANGED <<prog, handle, dbVars, crawlVars, img, conversion_success>>

\* copy2(output_icon, ...)
SvgCopy2 ==
    /\ SvgAt("copy2")
    /\ \E ok \in BOOLEAN :
        /\ SvgOutcome(ok, "Exception")
        /\ files' = IF ok THEN [files EXCEPT ![SvgArg] = files["icon.png"]]
                    ELSE files
    /\ UNCHANGED <<prog, handle, dbVars, crawlVars, img, env,
                   conversion_success>>

\* conversion_success = True; print("[SUCCESS] ..."), the end of a try block
SvgSuccess ==
    /\ prog = "process_svg_icon"
    /\ mode = "run"
    /\ at \in {"method1", "method2", "method3", "method4"}
    /\ pc = Len(Steps(at)) + 1
    /\ conversion_success' = TRUE
    /\ trace' = Append(trace, Ev("print", "[SUCCESS]", at))
    /\ at' = After(at)
    /\ pc' = IF After(at) = "check" THEN 1 ELSE 0
    /\ UNCHANGED <<prog, mode, handle, dbVars, i, visited_pages,
                   page_data, results, site, iter, img, files, env>>

\* except ImportError / except Exception as e: a print, then the statement
\* after the try statement
SvgExcept ==
    /\ prog = "process_svg_icon"
    /\ mode = "raised"
    /\ at \in {"method1", "method2", "method3", "method4"}
    /\ mode' = "run"
    /\ trace' = Append(trace, Ev("print", "[SKIP] or [ERROR]", at))
    /\ at' = After(at)
    /\ pc' = IF After(at) = "check" THEN 1 ELSE 0
    /\ UNCHANGED <<prog, handle, dbVars, i, visited_pages,
                   page_data, results, site, iter, extVars>>

\* if not conversion_success: the manual steps are printed; sys.exit(1)
SvgExitFailed ==
    /\ prog = "process_svg_icon"
    /\ mode = "run"
    /\ at = "check"
    /\ ~conversion_success
    /\ trace' = Append(trace, Ev("print", "CONVERSION FAILED", "ok"))
    /\ mode' = "done"
    /\ exit_status' = 1
    /\ UNCHANGED <<prog, pc, handle, conn, cursor, db, tx, rows, ret,
                   crawlVars, extVars>>

\* the verification, reached with conversion_success set: if icon.png
\* exists, `from PIL import Image`, Image.open and getsize run outside of
\* any try statement, then the banner is printed and the script ends with
\* status 0; an ImportError ends the interpreter with a traceback and
\* status 1; if icon.png does not exist, [ERROR] is printed and sys.exit(1)
SvgVerify ==
    /\ prog = "process_svg_icon"
    /\ mode = "run"
    /\ at = "check"
    /\ conversion_success
    /\ IF files["icon.png"] = NoImage
       THEN /\ trace' = Append(trace, Ev("print", "[ERROR]", "ok"))
            /\ mode' = "done"
            /\ exit_status' = 1
       ELSE IF env.pillow
       THEN /\ trace' = trace \o << Ev("import", "PIL", "ok"),
                                   Ev("print", "SUCCESS!", "ok") >>
            /\ mode' = "done"
            /\ exit_status' = 0
       ELSE /\ trace' = Append(trace, Ev("import", "PIL", "ImportError"))
            /\ mode' = "uncaught"
            /\ exit_status' = 1
    /\ UNCHANGED <<prog, pc, handle, conn, cursor, db, tx, rows, ret,
                   crawlVars, extVars>>

SvgNext ==
    \/ SvgIfNotSuccess
    \/ SvgImport
    \/ SvgSvg2png
    \/ SvgRead
    \/ SvgImageOpen
    \/ SvgSave
    \/ SvgFindInkscape
    \/ SvgRun
    \/ SvgCopy2
    \/ SvgSuccess
    \/ SvgExcept
    \/ SvgExitFailed
    \/ SvgVerify

----------------------------------------------------------------------------
(* The remaining browser scripts: comprehensive_diagnostic, check_fonts     *)
(* and test_fonts, as the sequence of Playwright calls each makes inside    *)
(* its `with ... as p:` block.  time.sleep, os.makedirs and the prints      *)
(* other than the summary are left out: they change nothing a call sees.    *)

\* loc = page.locator(sel); if loc.is_visible(): <the next n calls>
V(sel, n) == [op |-> "is_visible", arg |-> sel, body |-> n]

\* one iteration of `for port in ...`: try: await page.goto(address,
\* timeout=...); break -- except: continue; n calls lie between this one and
\* the statement that follows the break
G(address, n) == [op |-> "try_goto", arg |-> address, body |-> n]

\* if card.is_visible(): card.click(); screenshot; card.click()  # Collapse
Collapsible(sel, png) ==
    << V(sel, 3), I("click", sel), I("screenshot", png), I("click", sel) >>

\* if card.is_visible(): card.click(); screenshot
Expandable(sel, png) ==
    << V(sel, 2), I("click", sel), I("screenshot", png) >>

comprehensive_diagnostic ==
    Setup("430x932") \o
    << I("goto", "http://localhost:8081") >> \o
    << I("screenshot", "01_dashboard_load.png") >> \o
    << V("text=/Good (Morning|Afternoon|Evening)/", 0) >> \o
    << I("screenshot", "02_greeting_card.png") >> \o
    << V("text=WEATHER", 0) >> \o
    << I("screenshot", "03_weather_widget.png") >> \o
    << I("count", "[role=tab]") >> \o
    << I("screenshot", "04_calendar.png") >> \o
    << V("text=DAILY BALANCE", 0) >> \o
    << I("screenshot", "05_daily_balance.png") >> \o
    << V("text=Protein", 2), V("text=Fat", 1), V("text=Carbs", 0) >> \o
    << I("screenshot", "06_macro_gauges.png") >> \o
    << I("evaluate", "window.scrollTo(0, 1000)") >> \o
    << I("screenshot", "07_scroll_cards.png") >> \o
    Collapsible("text=DAILY FAT LOSS", "08_fat_loss_expanded.png") \o
    Collapsible("text=WEEKLY PROGRESS", "09_weekly_expanded.png") \o
    << I("evaluate", "window.scrollTo(0, 1500)") >> \o
    Expandable("text=TODAY'S MEALS", "10_meals_expanded.png") \o
    << V("text=+ Log Meal", 4),
           I("click", "text=+ Log Meal"),
           I("screenshot", "11_ai_meal_logger_open.png"),
           V("text=Manual Entry", 0),
           I("click", "[aria-label=close]") >> \o
    << I("evaluate", "window.scrollTo(0, 2000)") >> \o
    << V("text=WEARABLE SYNC", 5),
           I("click", "text=WEARABLE SYNC"),
           I("screenshot", "12_wearable_sync_expanded.png"),
           V("text=Apple Health", 0),
           V("text=Fitbit", 0),
           V("text=Google Fit", 0) >> \o
    << I("evaluate", "window.scrollTo(0, 2500)") >> \o
    Expandable("text=DINING OUT", "13_dining_out_expanded.png") \o
    << I("evaluate", "window.scrollTo(0, 0)") >> \o
    << I("screenshot", "14_full_page_top.png") >> \o
    << I("evaluate", "window.scrollTo(0, 500)") >> \o
    << V("#hc-calories-ring-main, .hc-gauge-value", 1),
           I("evaluate", "fontWeight") >> \o
    << I("screenshot", "15_font_weight_check.png") >> \o
    << I("evaluate", "backgroundColor") >> \o
    << I("screenshot", "16_color_scheme.png") >> \o
    << I("evaluate", "window.scrollTo(0, 800)") >> \o
    << I("screenshot", "17_gauge_transparency_check.png") >> \o
    << I("evaluate", "window.scrollTo(0, 400)") >> \o
    << I("screenshot", "18_card_spacing.png") >> \o
    << I("print", "All tests completed successfully!"),
       I("print", "All requested features have been implemented and tested!"),
       I("close", "browser") >>

\* ports = [8081, 19006, 19000, 8082]; `if not connected:` is reached by
\* falling out of the loop, the statements after it by the break
check_fonts ==
    Setup("430x932") \o
    << G("http://localhost:8081", 6),
       G("http://localhost:19006", 5),
       G("http://localhost:19000", 4),
       G("http://localhost:8082", 3),
       I("print", "Could not connect to Expo app."),
       I("close", "browser"),
       I("return", ""),
       I("wait_for_timeout", "5000"),
       I("screenshot", "font_check_screenshot.png"),
       I("wait_for_timeout", "30000"),
       I("close", "browser") >>

\* for port in [8081, 8082, 19006, 19000]; the statements after the loop
\* run whether the loop ended by break or by exhaustion
test_fonts ==
    Setup("430x932") \o
    << G("http://localhost:8081", 3),
       G("http://localhost:8082", 2),
       G("http://localhost:19006", 1),
       G("http://localhost:19000", 0),
       I("wait_for_timeout", "3000"),
       I("screenshot", "font_test_result.png"),
       I("print", "Screenshot saved to font_test_result.png"),
       I("close", "browser") >>

DiagScripts == {"comprehensive_diagnostic", "check_fonts", "test_fonts"}

DiagScript(p) ==
    CASE p = "comprehensive_diagnostic" -> comprehensive_diagnostic
      [] p = "check_fonts"              -> check_fonts
      [] p = "test_fonts"               -> test_fonts

\* the ten features whose visibility comprehensive_diagnostic reports, by the
\* locators it tests for each
Features ==
    { {"text=/Good (Morning|Afternoon|Evening)/"}, {"text=WEATHER"},
      {"text=DAILY BALANCE"}, {"text=Protein", "text=Fat", "text=Carbs"},
      {"text=DAILY FAT LOSS"}, {"text=WEEKLY PROGRESS"},
      {"text=TODAY'S MEALS"}, {"text=+ Log Meal"}, {"text=WEARABLE SYNC"},
      {"text=DINING OUT"} }

\* the dashboards the diagnostic is run against, as the locators that are
\* visible: the finished one, an empty page, and two unfinished ones
Dashboards ==
    { UNION Features \cup {"text=Manual Entry", "text=Apple Health",
                           "#hc-calories-ring-main, .hc-gauge-value"},
      {},
      {"text=Protein", "text=Fat", "text=+ Log Meal", "text=WEARABLE SYNC",
       "text=Fitbit"},
      UNION Features \ {"text=DINING OUT"} }

DiagRunning(ops) ==
    /\ prog \in DiagScripts
    /\ mode = "run"
    /\ pc <= Len(DiagScript(prog))
    /\ DiagScript(prog)[pc].op \in ops

DiagIns == DiagScript(prog)[pc]

\* control moves to the call at `next`, or to the end of the with block
DiagContinue(next) ==
    /\ pc' = next
    /\ mode' = IF next > Len(DiagScript(prog)) THEN "end" ELSE "run"

\* a call outside of every try statement returned, or raised: the exception
\* leaves the with block and the function
DiagOutcome(ok) ==
    /\ trace' = Append(trace, Ev(DiagIns.op, DiagIns.arg,
                                 IF ok THEN "ok" ELSE "raised"))
    /\ IF ok THEN DiagContinue(pc + 1) ELSE pc' = pc /\ mode' = "raised"

\* browser = p.chromium.launch(...); context = browser.new_context(...);
\* page = context.new_page()
DiagSetup ==
    /\ DiagRunning({"launch", "new_context", "new_page"})
    /\ \E ok \in BOOLEAN : DiagOutcome(ok)
    /\ UNCHANGED <<prog, handle, dbVars, crawlVars, extVars>>

\* page.goto('http://localhost:8081')
DiagGoto ==
    /\ DiagRunning({"goto"})
    /\ \E ok \in BOOLEAN : DiagOutcome(ok)
    /\ UNCHANGED <<prog, handle, dbVars, crawlVars, extVars>>

\* page.screenshot(path=...)
DiagScreenshot ==
    /\ DiagRunning({"screenshot"})
    /\ \E ok \in BOOLEAN : DiagOutcome(ok)
    /\ UNCHANGED <<prog, handle, dbVars, crawlVars, extVars>>

\* page.evaluate(...), calendar_days.count(), calorie_value.evaluate(...)
DiagEvaluate ==
    /\ DiagRunning({"evaluate", "count"})
    /\ \E ok \in BOOLEAN : DiagOutcome(ok)
    /\ UNCHANGED <<prog, handle, dbVars, crawlVars, extVars>>

\* locator.click()
DiagClick ==
    /\ DiagRunning({"click"})
    /\ \E ok \in BOOLEAN : DiagOutcome(ok)
    /\ UNCHANGED <<prog, handle, dbVars, crawlVars, extVars>>

\* await page.wait_for_timeout(ms)
DiagWait ==
    /\ DiagRunning({"wait_for_timeout"})
    /\ \E ok \in BOOLEAN : DiagOutcome(ok)
    /\ UNCHANGED <<prog, handle, dbVars, crawlVars, extVars>>

\* if locator.is_visible(): the block runs when the locator is visible on
\* the page and is skipped when it is not
DiagIsVisible ==
    /\ DiagRunning({"is_visible"})
    /\ \E ok \in BOOLEAN :
        LET res == IF ~ok THEN "raised"
                   ELSE IF DiagIns.arg \in site THEN "visible" ELSE "hidden"
        IN /\ trace' = Append(trace, Ev("is_visible", DiagIns.arg, res))
           /\ CASE res = "visible" -> DiagContinue(pc + 1)
                [] res = "hidden"  -> DiagContinue(pc + 1 + DiagIns.body)
                [] OTHER           -> pc' = pc /\ mode' = "raised"
    /\ UNCHANGED <<prog, handle, dbVars, crawlVars, extVars>>

\* the loop over the ports without its try statement: the exception of a
\* goto leaves the with block and the function
DiagTryGotoUncaught ==
    /\ DiagRunning({"try_goto"})
    /\ \E ok \in BOOLEAN :
        /\ trace' = Append(trace, Ev("goto", DiagIns.arg,
                                     IF ok THEN "ok" ELSE "raised"))
        /\ IF ok THEN DiagContinue(pc + 1 + DiagIns.body)
                 ELSE pc' = pc /\ mode' = "raised"
    /\ UNCHANGED <<prog, handle, dbVars, crawlVars, extVars>>

\* one iteration of the loop over the ports: a goto that returns is followed
\* by break, an exception is caught and the loop continues
DiagTryGoto ==
    /\ DiagRunning({"try_goto"})
    /\ \E ok \in BOOLEAN :
        /\ trace' = Append(trace, Ev("goto", DiagIns.arg,
                                     IF ok THEN "ok" ELSE "raised"))
        /\ DiagContinue(IF ok THEN pc + 1 + DiagIns.body ELSE pc + 1)
    /\ UNCHANGED <<prog, handle, dbVars, crawlVars, extVars>>

\* print(...)
DiagPrint ==
    /\ DiagRunning({"print"})
    /\ DiagOutcome(TRUE)
    /\ UNCHANGED <<prog, handle, dbVars, crawlVars, extVars>>

\* browser.close()
DiagClose ==
    /\ DiagRunning({"close"})
    /\ DiagOutcome(TRUE)
    /\ UNCHANGED <<prog, handle, dbVars, crawlVars, extVars>>

\* return, inside the with block
DiagReturn ==
    /\ DiagRunning({"return"})
    /\ mode' = "end"
    /\ UNCHANGED <<prog, pc, handle, trace, dbVars, crawlVars, extVars>>

\* the with block is left, at its end, by return or by an exception: __exit__
\* stops the Playwright driver; the function returns and the interpreter
\* ends with status 0, or the exception is uncaught and it ends with status 1
DiagWithExit ==
    /\ prog \in DiagScripts
    /\ mode \in {"end", "raised"}
    /\ trace' = Append(trace, Ev("__exit__", "playwright", "ok"))
    /\ exit_status' = IF mode = "raised" THEN 1 ELSE 0
    /\ mode' = "exit"
    /\ UNCHANGED <<prog, pc, handle, conn, cursor, db, tx, rows, ret,
                   crawlVars, extVars>>

DiagNext ==
    \/ DiagSetup \/ DiagGoto \/ DiagScreenshot \/ DiagEvaluate
    \/ DiagClick \/ DiagWait \/ DiagIsVisible \/ DiagTryGoto
    \/ DiagPrint \/ DiagClose \/ DiagReturn \/ DiagWithExit

----------------------------------------------------------------------------
(* The crawler's loops over the cards and the buttons of one page, on the   *)
(* texts of the page's elements.  A text is a sequence of characters: a     *)
(* blank, an ASCII letter and a letter outside of ASCII stand for the three *)
(* kinds of character the code tells apart; the last is written by its     *)
(* code point.                                                              *)

MaxLen == 2

MaxElements == 2

Chars == {" ", "a", "U+00E9"}

IsAscii(c) == c \in {" ", "a"}

Texts == UNION { [1..n -> Chars] : n \in 0..MaxLen }

\* the lists query_selector_all can return, as the texts of the elements
ElementLists == UNION { [1..n -> Texts] : n \in 0..MaxElements }

\* seq[:n]
Take(seq, n) == SubSeq(seq, 1, Min(Len(seq), n))

RECURSIVE LStrip(_)
LStrip(t) == IF t # << >> /\ Head(t) = " " THEN LStrip(Tail(t)) ELSE t

RECURSIVE RStrip(_)
RStrip(t) ==
    IF t # << >> /\ t[Len(t)] = " " THEN RStrip(SubSeq(t, 1, Len(t) - 1))
    ELSE t

\* text.strip()
Strip(t) == RStrip(LStrip(t))

\* text.encode('ascii', 'ignore').decode('ascii')
AsciiIgnore(t) == SelectSeq(t, IsAscii)

\* cards[:20], buttons[:30] and safe_text[:200]
CardLimit == 20

ButtonLimit == 30

TextLimit == 200

\* if text and len(text.strip()) > 0
HasText(t) == t # << >> /\ Len(Strip(t)) > 0

\* the entry appended for an element with the text t
CardEntry(t) == [text |-> Take(Strip(AsciiIgnore(t)), TextLimit)]

ButtonEntry(t) == [text |-> Strip(AsciiIgnore(t))]

\* one pass of `for card in cards[:20]`: inner_text or get_attribute raises
\* and the element is passed over, or the element is recorded if it has text
ExtractCard ==
    /\ Crawling("cards")
    /\ IF pc > Len(Take(env.cards, CardLimit))
       THEN /\ at' = "buttons"
            /\ pc' = 1
            /\ UNCHANGED page_data
       ELSE /\ \E ok \in BOOLEAN :
                page_data' = IF ok /\ HasText(env.cards[pc])
                             THEN [page_data EXCEPT !.cards =
                                      Append(@, CardEntry(env.cards[pc]))]
                             ELSE page_data
            /\ pc' = pc + 1
            /\ at' = at
    /\ UNCHANGED <<prog, mode, handle, trace, dbVars, i, visited_pages,
                   results, site, iter, extVars>>

\* one pass of `for btn in buttons[:30]`
ExtractButton ==
    /\ Crawling("buttons")
    /\ IF pc > Len(Take(env.buttons, ButtonLimit))
       THEN /\ at' = "forms"
            /\ pc' = 1
            /\ UNCHANGED page_data
       ELSE /\ \E ok \in BOOLEAN :
                page_data' = IF ok /\ HasText(env.buttons[pc])
                             THEN [page_data EXCEPT !.buttons =
                                      Append(@, ButtonEntry(env.buttons[pc]))]
                             ELSE page_data
            /\ pc' = pc + 1
            /\ at' = at
    /\ UNCHANGED <<prog, mode, handle, trace, dbVars, i, visited_pages,
                   results, site, iter, extVars>>

ExtractNext == ExtractCard \/ ExtractButton

----------------------------------------------------------------------------

\* the database before the script runs: workout_plans may be missing, or
\* hold any of the two columns already
DbStates ==
    { [table |-> FALSE, cols |-> {}] } \cup
    { [table |-> TRUE, cols |-> c] : c \in SUBSET NewCols }

Init ==
    /\ prog \in ShotScripts \cup DbScripts \cup {"crawl_heirclark_website"}
    /\ mode = "run"
    /\ pc = 1
    /\ handle = "None"
    /\ trace = << >>
    /\ conn = "None"
    /\ cursor = "None"
    /\ db \in IF prog \in DbScripts THEN DbStates ELSE {[table |-> TRUE, cols |-> {}]}
    /\ tx = {}
    /\ rows = {}
    /\ ret = "None"
    /\ exit_status = -1
    /\ at = "launch"
    /\ i = 1
    /\ visited_pages = {}
    /\ page_data = NoPage
    /\ results = [pages |-> << >>, features |-> << >>, errors |-> << >>]
    /\ site \in IF prog = "crawl_heirclark_website" THEN Sites ELSE {{}}
    /\ iter = NoIter
    /\ img = NoImage
    /\ files = NoFiles
    /\ env = IF prog \in DbScripts THEN [schema |-> db] ELSE NoEnv
    /\ conversion_success = FALSE

Next == ShotNext \/ DbNext \/ CrawlNext

Spec == Init /\ [][Next]_vars

\* a run of process_app_icon on one of the pictures
IconInit ==
    /\ prog = "process_app_icon"
    /\ mode = "run" /\ pc = 1 /\ handle = "None" /\ trace = << >>
    /\ conn = "None" /\ cursor = "None"
    /\ db = [table |-> TRUE, cols |-> {}]
    /\ tx = {} /\ rows = {} /\ ret = "None" /\ exit_status = -1
    /\ at = "open" /\ i = 1 /\ visited_pages = {} /\ page_data = NoPage
    /\ results = [pages |-> << >>, features |-> << >>, errors |-> << >>]
    /\ site = {}
    /\ iter = NoIter
    /\ img = NoImage
    /\ files = NoFiles
    /\ env \in [input : Inputs]
    /\ conversion_success = FALSE

\* run_migration.py run up to MaxRuns times in a row on one database
MigrateInit ==
    /\ prog = "run_migration"
    /\ mode = "run" /\ pc = 1 /\ handle = "None" /\ trace = << >>
    /\ conn = "None" /\ cursor = "None"
    /\ db \in DbStates
    /\ tx = {} /\ rows = {} /\ ret = "None" /\ exit_status = -1
    /\ at = "launch" /\ i = 1 /\ visited_pages = {} /\ page_data = NoPage
    /\ results = [pages |-> << >>, features |-> << >>, errors |-> << >>]
    /\ site = {}
    /\ iter = NoIter
    /\ img = NoImage
    /\ files = NoFiles
    /\ env = [schema |-> db, runs |-> << >>]
    /\ conversion_success = FALSE

SpecMigrate == MigrateInit /\ [][MigrateNext]_vars

SpecIcon == IconInit /\ [][IconNext]_vars

\* a run of process_svg_icon on one of the machines, with or without an
\* icon.png left in the assets directory by an earlier run
SvgInit ==
    /\ prog = "process_svg_icon"
    /\ mode = "run" /\ pc = 1 /\ handle = "None" /\ trace = << >>
    /\ conn = "None" /\ cursor = "None"
    /\ db = [table |-> TRUE, cols |-> {}]
    /\ tx = {} /\ rows = {} /\ ret = "None" /\ exit_status = -1
    /\ at = "method1" /\ i = 1 /\ visited_pages = {} /\ page_data = NoPage
    /\ results = [pages |-> << >>, features |-> << >>, errors |-> << >>]
    /\ site = {}
    /\ iter = NoIter
    /\ img = NoImage
    /\ files \in {NoFiles, [n \in OutputNames |-> Png1024]}
    /\ env \in Machines
    /\ conversion_success = FALSE

SpecSvg == SvgInit /\ [][SvgNext]_vars

\* a run of one of the remaining browser scripts; comprehensive_diagnostic
\* against one of the dashboards
DiagInit ==
    /\ prog \in DiagScripts
    /\ mode = "run" /\ pc = 1 /\ handle = "None" /\ trace = << >>
    /\ conn = "None" /\ cursor = "None"
    /\ db = [table |-> TRUE, cols |-> {}]
    /\ tx = {} /\ rows = {} /\ ret = "None" /\ exit_status = -1
    /\ at = "launch" /\ i = 1 /\ visited_pages = {} /\ page_data = NoPage
    /\ results = [pages |-> << >>, features |-> << >>, errors |-> << >>]
    /\ site \in IF prog = "comprehensive_diagnostic" THEN Dashboards ELSE {{}}
    /\ iter = NoIter
    /\ img = NoImage
    /\ files = NoFiles
    /\ env = NoEnv
    /\ conversion_success = FALSE

SpecDiag == DiagInit /\ [][DiagNext]_vars

\* the crawler on a page, page_data just built, with the cards and buttons
\* that the two query_selector_all calls return
ExtractInit ==
    /\ prog = "crawl_heirclark_website"
    /\ mode = "run" /\ pc = 1 /\ handle = "None" /\ trace = << >>
    /\ conn = "None" /\ cursor = "None"
    /\ db = [table |-> TRUE, cols |-> {}]
    /\ tx = {} /\ rows = {} /\ ret = "None" /\ exit_status = -1
    /\ at = "cards" /\ i = 1 /\ visited_pages = {url}
    /\ page_data = [url |-> url, components |-> << >>, cards |-> << >>,
                    buttons |-> << >>]
    /\ results = [pages |-> << >>, features |-> << >>, errors |-> << >>]
    /\ site = {}
    /\ iter = NoIter
    /\ img = NoImage
    /\ files = NoFiles
    /\ env \in [cards : ElementLists, buttons : ElementLists]
    /\ conversion_success = FALSE

SpecExtract == ExtractInit /\ [][ExtractNext]_vars

----------------------------------------------------------------------------
(* Properties of the five screenshot scripts. *)

\* the positions of the trace at which `op` was called
Calls(op) == { j \in 1..Len(trace) : trace[j].op = op }

Returned(op) == { j \in Calls(op) : trace[j].res = "ok" }

Raised == { j \in 1..Len(trace) : trace[j].res \in {"raised", "no_element"} }

PageOpened == Returned("new_page") # {}

\* C1: in the five screenshot scripts, once the browser is launched and the
\* page opened, browser.close() is executed on every path: the run never stops
\* before the end of the function, and at the end browser.close() has been
\* called, after a full run as well as after any call that raised.
C1_BrowserClosedOnEveryPath ==
    (prog \in ShotScripts /\ PageOpened) =>
        /\ mode # "raised"
        /\ mode # "exit" => ENABLED Next
        /\ mode = "exit" =>
              /\ trace[Len(trace)].op = "close"
              /\ \A j \in Raised : j < Len(trace)

\* a run in which a screenshot raised has ended with the browser closed
C1_Witness ==
    /\ prog = "capture_gauges"
    /\ mode = "exit"
    /\ \E j \in Calls("screenshot") : trace[j].res = "raised"
    /\ Calls("close") # {}

\* C2: in the five screenshot scripts the order is launch, navigation to
\* http://localhost:8081, optional click, wait, screenshot: every click and
\* every screenshot comes after a navigation that returned, a screenshot that
\* follows a click has a wait between them, and when the navigation raises
\* the run takes no screenshot and does nothing but print the error and
\* close the browser.
C2_NavigationBeforeScreenshot ==
    prog \in ShotScripts =>
        /\ \A g \in Calls("goto") :
              /\ trace[g].arg = "http://localhost:8081"
              /\ \E l \in Returned("launch") : l < g
              /\ trace[g].res = "raised" =>
                    /\ Calls("screenshot") = {}
                    /\ Len(trace) <= g + 2
                    /\ Len(trace) >= g + 1 => trace[g + 1].op = "print"
                    /\ Len(trace) >= g + 2 => trace[g + 2].op = "close"
        /\ \A j \in Calls("screenshot") \cup Calls("click") :
              \E g \in Returned("goto") : g < j
        /\ \A c \in Calls("click") : \A j \in Calls("screenshot") :
              c < j => \E w \in Returned("wait_for_timeout") : c < w /\ w < j

\* a run whose navigation raised has ended
C2_Witness ==
    /\ prog = "capture_macro_detail"
    /\ mode = "exit"
    /\ \E g \in Calls("goto") : trace[g].res = "raised"

PageChanging == {"goto", "click", "evaluate"}

\* C3: in the five screenshot scripts, between the most recent page-changing
\* call (goto, click, window.scrollTo) and a screenshot there is always a
\* wait_for_timeout that returned.
C3_WaitBeforeScreenshot ==
    prog \in ShotScripts =>
        \A j \in Calls("screenshot") :
            \E w \in Returned("wait_for_timeout") :
                /\ w < j
                /\ \A k \in (w + 1)..(j - 1) : trace[k].op \notin PageChanging

\* diagnose_cards has expanded the last card and taken its screenshot
C3_Witness ==
    /\ prog = "diagnose_cards"
    /\ \E j \in Returned("screenshot") :
          /\ trace[j].arg = "diagnosis_07_todays_meals.png"
          /\ trace[j - 2].op = "click"

\* the call the script makes next, "end" after the last one
NextOp ==
    IF mode = "run" /\ pc <= Len(Script(prog)) THEN Script(prog)[pc].op
    ELSE IF mode = "finally" THEN "end" ELSE mode

\* C4: in the screenshot scripts a named element is clicked if and only if
\* query_selector found it: a found element is the next thing clicked, every
\* click is on the element the query before it found, and for an absent
\* element no click is attempted, nothing is raised, and the script goes on
\* with the call after the if block.
C4_ClickIffFound ==
    prog \in ShotScripts =>
        /\ \A c \in Calls("click") :
              /\ trace[c].res # "no_element"
              /\ c > 1
              /\ trace[c - 1] = Ev("query_selector", trace[c].arg, "found")
        /\ \A q \in Calls("query_selector") :
              /\ trace[q].res = "found" =>
                    IF q = Len(trace)
                    THEN NextOp = "click" /\ Script(prog)[pc].arg = trace[q].arg
                    ELSE trace[q + 1].op = "click" /\ trace[q + 1].arg = trace[q].arg
              /\ trace[q].res = "absent" =>
                    /\ \A c \in Calls("click") : trace[c].arg # trace[q].arg
                    /\ IF q = Len(trace)
                       THEN NextOp \in {"query_selector", "wait_for_timeout",
                                        "evaluate", "screenshot", "end"}
                       ELSE trace[q + 1].op \notin {"click", "print"}

\* capture_gauges found no Skip button, found the Log In link and clicked it
C4_Witness ==
    /\ prog = "capture_gauges"
    /\ \E q \in Calls("query_selector") :
          /\ trace[q] = Ev("query_selector", "text=Skip", "absent")
          /\ Len(trace) >= q + 2
          /\ trace[q + 1] = Ev("query_selector", "text=Log In", "found")
          /\ trace[q + 2] = Ev("click", "text=Log In", "ok")

----------------------------------------------------------------------------
(* Properties of the three database scripts. *)

Returning == mode \in {"returned", "exit"}

\* C5: in the three database scripts an exception raised by connect, cursor,
\* execute, fetchall, commit or close is caught by the outer try/except: no
\* exception leaves the function, the call that raised is followed by the
\* error print and `return False`, and the function returns True only when
\* no call raised.
C5_DbErrorsCaught ==
    prog \in DbScripts =>
        /\ mode # "raised"
        /\ ~Returning => ENABLED Next
        /\ \A j \in Raised :
              IF j = Len(trace) THEN mode = "except"
              ELSE /\ j + 1 = Len(trace)
                   /\ trace[j + 1] = Ev("print", "[ERROR]", "ok")
                   /\ Returning /\ ret = "False"
        /\ Returning => /\ ret \in {"True", "False"}
                        /\ ret = "True" <=> Raised = {}
                        /\ ret = "False" <=> trace[Len(trace)].op = "print"
        /\ ~Returning => ret = "None"

\* check_tables returned False because its second fetchall raised
C5_Witness ==
    /\ prog = "check_tables"
    /\ Returning
    /\ ret = "False"
    /\ \E j \in Calls("fetchall") : trace[j] = Ev("fetchall", "columns", "raised")

\* C6: run_migration.py exits with status 0 if and only if run_migration()
\* returned True and with status 1 otherwise; a run in which connect, the
\* ALTER TABLE, the commit or the verification query raised ends with 1.
C6_ExitStatus ==
    prog = "run_migration" =>
        /\ mode # "exit" => exit_status = -1
        /\ mode = "exit" =>
              /\ exit_status \in {0, 1}
              /\ exit_status = 0 <=> ret = "True"
              /\ exit_status = 1 <=> ret = "False"
              /\ Raised # {} => exit_status = 1

\* run_migration has exited after its commit raised
C6_Witness ==
    /\ prog = "run_migration"
    /\ mode = "exit"
    /\ exit_status = 1
    /\ \E j \in Calls("commit") : trace[j].res = "raised"

----------------------------------------------------------------------------
(* Properties of the crawler. *)

Crawler == prog = "crawl_heirclark_website"

Max(S) == CHOOSE x \in S : \A y \in S : y <= x

\* the feature analysis has issued its page.goto
FeatGotoIssued ==
    at \in {"feat_wait", "feat_check", "feat_except", "close", "write", "return"}

\* the navigations of the for loop: all of them but the feature analysis's
LoopGotos ==
    IF FeatGotoIssued /\ Calls("goto") # {}
    THEN Calls("goto") \ {Max(Calls("goto"))}
    ELSE Calls("goto")

Count(seq, u) == Cardinality({ k \in 1..Len(seq) : seq[k] = u })

\* how many times u is recorded in results['pages'] and results['errors']
Recorded(u) == Count(results.pages, u) + Count(results.errors, u)

\* C7: the main loop takes the six URLs one after another in list order: the
\* k-th navigation of the loop is to the k-th URL, when it is issued the URLs
\* before it are each recorded in results['pages'] or results['errors'], none
\* is recorded twice, and at the end of the loop each of the six URLs has
\* been navigated to exactly once by the loop.
C7_SequentialInOrder ==
    Crawler =>
        LET n == Cardinality(LoopGotos) IN
        /\ n <= Len(pages_to_visit)
        /\ \A j \in LoopGotos :
              trace[j].arg = pages_to_visit[Cardinality({ k \in LoopGotos : k <= j })]
        /\ \A k \in 1..Len(pages_to_visit) :
              /\ k < n => Recorded(pages_to_visit[k]) = 1
              /\ k > n => Recorded(pages_to_visit[k]) = 0
              /\ Recorded(pages_to_visit[k]) <= 1
        /\ i > Len(pages_to_visit) =>
              /\ n = Len(pages_to_visit)
              /\ \A k \in 1..n : Recorded(pages_to_visit[k]) = 1

\* the loop has ended with some pages crawled and some failed
C7_Witness ==
    /\ Crawler
    /\ i > Len(pages_to_visit)
    /\ Len(results.pages) = 4
    /\ Len(results.errors) = 2
    /\ Cardinality(LoopGotos) = 6

GotosTo(u) == { j \in Calls("goto") : trace[j].arg = u }

\* C8 as stated: no URL is navigated to more than once in a run, and once a
\* navigation to a URL has failed no later page.goto goes to that URL, across
\* the main loop and the feature analysis.
C8_NoUrlNavigatedTwice ==
    Crawler =>
        \A j \in Calls("goto") : \A k \in Calls("goto") :
            trace[j].arg = trace[k].arg => j = k

\* C8, amended: the main loop navigates to no URL more than once and does
\* not retry a failed navigation; the feature analysis then issues one more
\* page.goto, to the calorie-counter page, whether or not the loop's own
\* navigation to that page failed.  So in a run the calorie-counter page is
\* navigated to at most twice, the second time by the feature analysis, and
\* every other URL at most once.
C8_NoRetryInLoop ==
    Crawler =>
        /\ \A j \in LoopGotos : \A k \in LoopGotos :
              trace[j].arg = trace[k].arg => j = k
        /\ \A k \in 1..Len(pages_to_visit) :
              pages_to_visit[k] # FeatureUrl =>
                  Cardinality(GotosTo(pages_to_visit[k])) <= 1
        /\ Cardinality(GotosTo(FeatureUrl)) <= 2
        /\ FeatGotoIssued =>
              /\ Cardinality(GotosTo(FeatureUrl)) = 2
              /\ Max(GotosTo(FeatureUrl)) = Max(Calls("goto"))
        /\ ~FeatGotoIssued => Cardinality(GotosTo(FeatureUrl)) <= 1

\* the loop's navigation to the calorie-counter page failed and the feature
\* analysis navigated to it again
C8_Witness ==
    /\ Crawler
    /\ Cardinality(GotosTo(FeatureUrl)) = 2
    /\ \E j \in GotosTo(FeatureUrl) : j \in LoopGotos /\ trace[j].res = "raised"
    /\ FeatureUrl \in { results.errors[k] : k \in 1..Len(results.errors) }

\* C9: every entry of pages_to_visit is navigated to and none is skipped:
\* the branch `if url in visited_pages: continue` is never taken.
C9_NoEntrySkipped ==
    Crawler =>
        /\ Calls("continue") = {}
        /\ \A k \in 1..Len(pages_to_visit) :
              k < i => /\ pages_to_visit[k] \in visited_pages
                       /\ \E j \in LoopGotos : trace[j].arg = pages_to_visit[k]
        /\ at \in {"for", "launch", "new_context", "new_page"} =>
              \A k \in 1..Len(pages_to_visit) :
                  k >= i => pages_to_visit[k] \notin visited_pages

\* the loop has ended and visited_pages holds the six URLs
C9_Witness ==
    /\ Crawler
    /\ i > Len(pages_to_visit)
    /\ Cardinality(visited_pages) = 6
    /\ Cardinality(LoopGotos) = 6

----------------------------------------------------------------------------
(* Properties of process_app_icon. *)

Saved == { n \in OutputNames : files[n] # NoImage }

\* the crop box (left, top, right, bottom) is a square of the side of the
\* shorter edge, inside a picture of size (w, h), with margins that differ by
\* at most one pixel on each axis
CenterSquare(box, w, h) ==
    /\ box[3] - box[1] = Min(w, h)
    /\ box[4] - box[2] = Min(w, h)
    /\ box[1] >= 0 /\ box[2] >= 0 /\ box[3] <= w /\ box[4] <= h
    /\ (w - box[3]) - box[1] \in {0, 1}
    /\ (h - box[4]) - box[2] \in {0, 1}

\* C11: whatever the width and height of the input picture, every file that
\* process_app_icon saves holds a picture of size (1024, 1024) that was cut
\* out of the input by a centred square crop before it was resized, and a
\* run that ends normally has saved all three of icon.png, adaptive-icon.png
\* and splash-icon.png.
C11_Always1024 ==
    prog = "process_app_icon" =>
        /\ \A n \in Saved :
              /\ files[n].size = <<1024, 1024>>
              /\ CenterSquare(files[n].box, env.input.size[1],
                              env.input.size[2])
        /\ at \in {"icon.png", "adaptive-icon.png", "splash-icon.png", "verify"}
              => /\ img.size = <<1024, 1024>>
                 /\ CenterSquare(img.box, env.input.size[1], env.input.size[2])
        /\ mode = "done" => Saved = OutputNames

\* a picture that is neither square nor 1024 pixels wide has been processed
\* to the end
C11_Witness ==
    /\ prog = "process_app_icon"
    /\ mode = "done"
    /\ env.input.size = <<1, 2048>>
    /\ files["splash-icon.png"].size = <<1024, 1024>>

\* the picture p has no transparency and shows what the input shows: the
\* input's colour where the input was opaque or had no alpha band, white
\* where it was fully transparent in mode RGBA, a colour between the two
\* where it was partly transparent
Opaque(p) ==
    /\ p.mode = "RGB"
    /\ p.alpha = NoAlpha
    /\ IF env.input.mode = "RGBA"
       THEN /\ env.input.alpha = 255 => p.px = env.input.px
            /\ env.input.alpha = 0 => p.px = 255
            /\ p.px >= env.input.px /\ p.px <= 255
       ELSE p.px = env.input.px

\* C12: whatever the mode of the input picture, the picture that is cropped,
\* resized and saved is in mode RGB without an alpha band: an RGBA input has
\* been composited onto white through its alpha channel and an input in any
\* other mode than RGB has been converted to RGB.
C12_SavedAsRGB ==
    prog = "process_app_icon" =>
        /\ at \notin {"open", "convert"} => Opaque(img)
        /\ \A n \in Saved : Opaque(files[n])

\* a fully transparent black RGBA picture has been saved, as white RGB
C12_Witness ==
    /\ prog = "process_app_icon"
    /\ env.input.mode = "RGBA"
    /\ env.input.alpha = 0
    /\ env.input.px = 0
    /\ files["icon.png"].mode = "RGB"
    /\ files["icon.png"].px = 255

----------------------------------------------------------------------------
(* Properties of process_svg_icon. *)

SvgEnded == prog = "process_svg_icon" /\ exit_status # -1

\* C13: a run of process_svg_icon ends with status 1 exactly when none of
\* the four conversion methods succeeded or icon.png does not exist at the
\* verification; every other run prints the success banner and ends with
\* status 0.
C13_ExitOneIffNoIcon ==
    SvgEnded =>
        /\ exit_status \in {0, 1}
        /\ exit_status = 1
              <=> (~conversion_success \/ files["icon.png"] = NoImage)
        /\ exit_status = 0 => Returned("print") # {}
                              /\ trace[Len(trace)].arg = "SUCCESS!"

----------------------------------------------------------------------------
(* Properties of comprehensive_diagnostic, check_fonts and test_fonts. *)

DiagEnded == prog \in DiagScripts /\ mode = "exit"

\* C14: in comprehensive_diagnostic, check_fonts and test_fonts every run
\* that launched the browser has executed browser.close() by the time it
\* ends, also when a navigation, a click, a locator query or a screenshot
\* raised.
C14_BrowserClosedIfLaunched ==
    DiagEnded /\ Returned("launch") # {} => Calls("close") # {}

\* the locators that is_visible() reported visible
FoundVisible ==
    { trace[j].arg : j \in { k \in Calls("is_visible") :
                                trace[k].res = "visible" } }

SummaryPrinted ==
    \E j \in Calls("print") :
        trace[j].arg \in
            { "All tests completed successfully!",
              "All requested features have been implemented and tested!" }

\* C15: comprehensive_diagnostic prints its two summary lines only in a run
\* in which each of the ten checked features was found visible.
C15_SummaryOnlyIfAllVisible ==
    prog = "comprehensive_diagnostic" /\ SummaryPrinted
        => \A f \in Features : f \subseteq FoundVisible

----------------------------------------------------------------------------
(* Properties of the crawler's loop body. *)

\* an iteration of the main loop has just ended: its URL, and the URLs that
\* the loop has dealt with so far
IterationEnded == Crawler /\ mode = "run" /\ at = "for" /\ i > 1

LastUrl == pages_to_visit[i - 1]

InErrors(u) == Count(results.errors, u) = 1

\* each URL dealt with so far is in exactly one of the two lists, once, and
\* nothing else is in them; at the end of the loop that is all six URLs
Partition ==
    /\ \A k \in 1..Len(pages_to_visit) :
          Recorded(pages_to_visit[k]) = IF k < i THEN 1 ELSE 0
    /\ Len(results.pages) + Len(results.errors) = i - 1

\* the calls of the loop body by what they do
Navigation == {"goto", "wait", "title"}

ElementExtraction == {"cards", "buttons", "forms", "modals", "card", "button"}

\* the calls of the loop body that are inside no try block but the loop's
Unprotected ==
    {"goto", "wait", "title", "screenshot", "cards", "buttons", "forms", "modals"}

\* C16 as stated: when an iteration of the main loop has ended, pages and
\* errors partition the URLs dealt with so far (all six at the end of the
\* loop), and the iteration's URL is in errors exactly when its navigation,
\* its screenshot or its element extraction raised.
C16_ErrorsIffAnyRaise ==
    IterationEnded =>
        /\ Partition
        /\ InErrors(LastUrl)
              <=> iter.raised \cap (Navigation \cup {"screenshot"}
                                    \cup ElementExtraction) # {}

\* C16, amended: pages and errors partition the URLs dealt with so far, and
\* the iteration's URL is in errors exactly when a call outside the
\* per-card, per-button and probe try blocks raised; an exception raised
\* while one card or one button is read leaves the URL in pages.
C16_ErrorsIffUnprotectedRaise ==
    IterationEnded =>
        /\ Partition
        /\ InErrors(LastUrl) <=> iter.raised \cap Unprotected # {}
        /\ iter.raised \cap {"card", "button"} # {}
              /\ iter.raised \cap Unprotected = {}
              => Count(results.pages, LastUrl) = 1

\* the loop has ended with a URL in errors before the last one, and the last
\* URL is in pages although reading one of its cards raised
C16_Witness ==
    /\ IterationEnded
    /\ i > Len(pages_to_visit)
    /\ Len(results.errors) = 2
    /\ InErrors(pages_to_visit[3])
    /\ "card" \in iter.raised
    /\ Count(results.pages, LastUrl) = 1

Probes == {"log_meal", "date", "sync"}

\* C17: an exception raised inside the Log Meal, the date selector or the
\* Sync probe stays inside that probe: control never reaches the loop's
\* except clause from a probe, the probes after it still run, and the
\* iteration ends with the URL appended to results['pages'] and no entry for
\* it in results['errors'].
C17_ProbeExceptionsContained ==
    Crawler =>
        /\ at = "except" => iter.probes = {}
        /\ iter.raised \cap Probes # {} => at \in {"date", "sync", "append", "for"}
        /\ at = "append" => iter.probes = Probes
        /\ IterationEnded /\ iter.raised \cap Probes # {} =>
              /\ iter.probes = Probes
              /\ Count(results.pages, LastUrl) = 1
              /\ ~InErrors(LastUrl)

\* the Log Meal probe raised, the other two probes ran after it and the page
\* was appended
C17_Witness ==
    /\ IterationEnded
    /\ "log_meal" \in iter.raised
    /\ iter.probes = Probes
    /\ results.pages[Len(results.pages)] = LastUrl
    /\ results.errors = << >>

----------------------------------------------------------------------------
(* Properties of the crawler's card and button loops. *)

Entries ==
    { page_data.cards[k] : k \in 1..Len(page_data.cards) } \cup
    { page_data.buttons[k] : k \in 1..Len(page_data.buttons) }

\* C18: every entry recorded in page_data['cards'] or page_data['buttons']
\* has a 'text' that is not empty, whatever the texts of the elements,
\* texts made only of non-ASCII characters included.
C18_TextNeverEmpty ==
    Crawler /\ at \in {"cards", "buttons", "forms"} /\ "cards" \in DOMAIN page_data
        => \A entry \in Entries : entry.text # << >>

----------------------------------------------------------------------------
(* Properties of the screenshot names. *)

\* C19: the screenshot of a page is named after the last "/"-separated
\* segment of its URL, and the site root https://heirclark.com is named
\* home: screenshots/home.png for the base URL, screenshots/<last path
\* segment>.png for every other URL of the list.
C19_RootSavedAsHome ==
    Crawler /\ "screenshot" \in DOMAIN page_data =>
        page_data.screenshot =
            IF page_data.url = "https://heirclark.com" THEN "home"
            ELSE Pieces(page_data.url)[Len(Pieces(page_data.url))]

----------------------------------------------------------------------------
(* Properties of run_migration's failure report. *)

\* C20: run_migration returns False, after printing [ERROR] Migration
\* failed, and the process ends with status 1, only when the migration was
\* not applied: the ALTER TABLE has not been committed and the schema is
\* the one the script found.
C20_FalseOnlyIfNotApplied ==
    prog = "run_migration" /\ ret = "False" =>
        /\ Returned("commit") = {}
        /\ db = env.schema

----------------------------------------------------------------------------
(* Properties of run_migration run more than once. *)

\* the ALTER TABLE of the current run returns
AlterReturns == Execute /\ pc' = pc + 1

AtAlter ==
    /\ DbRunning("execute")
    /\ DbScript(prog)[pc].arg = "ALTER TABLE workout_plans ADD COLUMN IF NOT EXISTS"

\* C21: run_migration is idempotent on the schema: once a run has returned
\* True the table has both columns, and every later run, whether it succeeds
\* or fails at any call, leaves the schema exactly as that run left it; on a
\* table that exists the ALTER TABLE is able to return whichever of the two
\* columns are already there, so that a run on a table with both columns
\* returns True when no call raises.
C21_Idempotent ==
    prog = "run_migration" /\ "runs" \in DOMAIN env =>
        /\ \A j \in 1..Len(env.runs) :
              env.runs[j].ret = "True" =>
                  /\ env.runs[j].schema = [table |-> TRUE, cols |-> NewCols]
                  /\ db = env.runs[j].schema
                  /\ \A k \in j..Len(env.runs) :
                        env.runs[k].schema = env.runs[j].schema
        /\ ret = "True" => db = [table |-> TRUE, cols |-> NewCols]
        /\ AtAlter /\ db.table => ENABLED AlterReturns
        /\ Returning /\ Raised = {} => ret = "True"

\* the third run has returned True on the table to which the first run, which
\* returned True, added both columns, after a second run that failed
C21_Witness ==
    /\ prog = "run_migration"
    /\ "runs" \in DOMAIN env
    /\ env.schema = [table |-> TRUE, cols |-> {}]
    /\ Len(env.runs) = 2
    /\ env.runs[1].ret = "True"
    /\ env.runs[2].ret = "False"
    /\ ret = "True"
    /\ db.cols = NewCols

----------------------------------------------------------------------------
(* Closing of the cursor and of the connection in the database scripts. *)

\* C22, as the specification states it: when the function returns True the
\* cursor and the connection were both closed, and when it returns False
\* after connect() returned, neither the cursor nor the connection was
\* closed.
C22_ClosedExactlyOnSuccess ==
    prog \in DbScripts /\ Returning =>
        /\ ret = "True" => cursor = "closed" /\ conn = "closed"
        /\ ret = "False" /\ Returned("connect") # {} =>
              cursor # "closed" /\ conn # "closed"

\* C22: when the function returns True the cursor and the connection were
\* both closed; when it returns False the connection was never closed, and
\* the cursor was closed exactly when cursor.close() returned and the
\* exception is the one conn.close() raised.
C22_ClosedUnlessCloseRaises ==
    prog \in DbScripts /\ Returning =>
        /\ ret = "True" => cursor = "closed" /\ conn = "closed"
        /\ ret = "False" =>
              /\ conn # "closed"
              /\ cursor = "closed" <=> Returned("cursor.close") # {}
              /\ cursor = "closed" =>
                    /\ Len(trace) >= 2
                    /\ trace[Len(trace) - 1].op = "conn.close"
                    /\ trace[Len(trace) - 1].res = "raised"

\* conn.close() raised after cursor.close() had returned: False is returned
\* with the cursor closed and the connection open
C22_Witness ==
    /\ prog \in DbScripts
    /\ mode = "exit"
    /\ ret = "False"
    /\ Returned("connect") # {}
    /\ cursor = "closed"
    /\ conn = "open"

----------------------------------------------------------------------------
(* The port loop of test_fonts. *)

\* the addresses in the order of the list of ports
FontPorts ==
    << "http://localhost:8081", "http://localhost:8082",
       "http://localhost:19006", "http://localhost:19000" >>

\* the calls made before the loop: launch, new_context, new_page
BeforeLoop == Len(Setup("430x932"))

\* C23: test_fonts navigates to the ports 8081, 8082, 19006, 19000 in that
\* order, each one only after every port before it has raised, and to none
\* after a navigation that returned; whatever the navigations did, also when
\* all four raised, the run goes on to wait_for_timeout, and when that
\* returns to the screenshot of font_test_result.png, and when that returns
\* to the print of 'Screenshot saved' and to browser.close().
C23_PortsInOrderThenShot ==
    prog = "test_fonts" =>
        /\ \A j \in Calls("goto") :
              /\ j - BeforeLoop \in 1..Len(FontPorts)
              /\ trace[j].arg = FontPorts[j - BeforeLoop]
              /\ \A k \in (BeforeLoop + 1)..(j - 1) :
                    trace[k].op = "goto" /\ trace[k].res = "raised"
        /\ \A w \in Calls("wait_for_timeout") :
              /\ w > 1
              /\ trace[w - 1].op = "goto"
              /\ trace[w - 1].res = "ok" \/ w - 1 = BeforeLoop + Len(FontPorts)
        /\ DiagEnded /\ Returned("new_page") # {} =>
              Calls("wait_for_timeout") # {}
        /\ DiagEnded /\ Returned("wait_for_timeout") # {} =>
              \E j \in Calls("screenshot") :
                  trace[j].arg = "font_test_result.png"
        /\ DiagEnded /\ Returned("screenshot") # {} =>
              /\ \E j \in Calls("print") :
                    trace[j].arg = "Screenshot saved to font_test_result.png"
              /\ Calls("close") # {}

\* all four navigations raised, and the run has taken the screenshot, printed
\* the line and closed the browser
C23_Witness ==
    /\ prog = "test_fonts"
    /\ DiagEnded
    /\ Calls("goto") \ Returned("goto") =
           (BeforeLoop + 1)..(BeforeLoop + Len(FontPorts))
    /\ \E j \in Returned("screenshot") : trace[j].arg = "font_test_result.png"
    /\ \E j \in Calls("print") :
          trace[j].arg = "Screenshot saved to font_test_result.png"
    /\ Calls("close") # {}

====
